---- MODULE Spec2Model ----
(***************************************************************************)
(* Model of the VPS-CC-MCP tool execution engine: the session store        *)
(* (src/session.py), the approval gate and dispatcher (src/tools/base.py), *)
(* the context resolver (src/context.py) and the CLI entry point           *)
(* (src/agent.py).                                                         *)
(*                                                                         *)
(* JSON null / Python None is the string Null.  JSON values inside raw     *)
(* parameter maps are strings tagged by JsonType.  A session log file is   *)
(* the sequence of its records; a file that does not exist is <<>> (every  *)
(* write the program makes creates the file with one record in it).        *)
(***************************************************************************)
EXTENDS Integers, Sequences, FiniteSets, TLC

\* ------------------------------------------------------------------ bounds
MaxLog == 3            \* records written through the Session API, all logs together
MaxInvocations == 1    \* process invocations per behaviour
MaxClock == 1          \* inactivity windows the clock runs through

\* ------------------------------------------------------- program constants
SESSION_TTL_HOURS == 24

Null == "null"
Running == -1           \* exit_code of a process that has not ended
Absent == "<absent>"

SessionIds == {"sess_a", "sess_b"}      \* the identifier space
AbsDirs == {"/p", "/q"}                 \* absolute paths that may be directories
Focus == AbsDirs \cup {Null}

\* ApprovalLevel enum
AUTO == "auto"
CONFIRM == "confirm"
EXPLICIT == "explicit"

\* the registry after `import tools`: name -> approval level
ToolRegistry ==
    [project_focus |-> AUTO, service_restart |-> CONFIRM, service_stop |-> EXPLICIT,
     bash_run |-> EXPLICIT]

Registered == DOMAIN ToolRegistry

\* get_tool: the registered class or None
get_tool(name) == IF name \in Registered THEN name ELSE Null

\* ------------------------------------------------------------ log entries
NoError == [type |-> Null, message |-> {}]

\* SessionEntry.create: every key is present, unset ones are null.
\* context is <<>> for null and <<f>> for {"project_focus": f}.
SessionEntry(entry_type, tool, params, result, error, context) ==
    [type |-> entry_type, tool |-> tool, params |-> params,
     result |-> result, error |-> error, context |-> context]

NoParams == [name |-> Absent, path |-> Absent, dry_run |-> Absent, bogus |-> Absent,
             command |-> Absent, timeout |-> Absent]

\* a result payload; kind Null is JSON null
NoResult == [kind |-> Null, would_execute |-> Null, params |-> NoParams,
             approval_level |-> Null, timed_out |-> FALSE]

LifecycleEntry(entry_type) ==
    SessionEntry(entry_type, Null, NoParams, NoResult, NoError, <<>>)

\* -------------------------------------------------------- Session object
\* Session.__init__
NewSession(session_id) ==
    [session_id |-> session_id, _project_focus |-> Null,
     _entries |-> <<>>, _loaded |-> FALSE]

NoSession == NewSession(Null)

\* (mutation of LoadLine) the focus snapshot of a tool_call record is replayed too
LoadLineAnySnapshot(state, entry) ==
    [state EXCEPT
        !._entries = Append(@, entry),
        !._project_focus =
            IF entry.type \in {"context_change", "tool_call"} /\ Len(entry.context) = 1
            THEN entry.context[1] ELSE @]

\* the loop body of Session._load: one line of the file
LoadLine(state, entry) ==
    [state EXCEPT
        !._entries = Append(@, entry),
        !._project_focus =
            IF entry.type = "context_change" /\ Len(entry.context) = 1
            THEN entry.context[1] ELSE @]

RECURSIVE LoadLines(_, _)
LoadLines(state, lines) ==
    IF lines = <<>> THEN state
    ELSE LoadLines(LoadLine(state, Head(lines)), Tail(lines))

\* Session._load
_load(sess, file) ==
    IF sess._loaded THEN sess
    ELSE [LoadLines(sess, file) EXCEPT !._loaded = TRUE]

\* ------------------------------------------------------- raw parameters
\* A raw parameter map (the parsed --params object): field -> JSON value, Absent
\* for a key the map does not have.
RawParams ==
    {NoParams,
     [NoParams EXCEPT !.dry_run = "true"],
     [NoParams EXCEPT !.name = "nginx"],
     [NoParams EXCEPT !.name = "nginx", !.dry_run = "true"],
     [NoParams EXCEPT !.name = "7"],
     [NoParams EXCEPT !.name = "nginx", !.bogus = "1"],
     [NoParams EXCEPT !.path = "/p"],
     [NoParams EXCEPT !.path = "/q"],
     [NoParams EXCEPT !.path = "/p", !.dry_run = "true"],
     [NoParams EXCEPT !.path = "proj"]}

JsonType(v) ==
    IF v \in {"true", "false"} THEN "bool"
    ELSE IF v \in {"0", "1", "7"} THEN "int"
    ELSE "str"

Keys(raw) == {f \in DOMAIN raw : raw[f] # Absent}

\* Path.is_absolute / str.startswith("/") on the paths of the model
IsAbsolute(path) == path \in AbsDirs

\* the params_model of each tool: BaseToolParams (dry_run: bool = False,
\* extra = "forbid") extended by ProjectFocusParams / ServiceControlParams
ParamsModel ==
    [project_focus |->
        [fields |-> [path |-> "str", dry_run |-> "bool"], required |-> {"path"}],
     service_restart |->
        [fields |-> [name |-> "str", manager |-> "str", dry_run |-> "bool"],
         required |-> {"name"}],
     service_stop |->
        [fields |-> [name |-> "str", manager |-> "str", dry_run |-> "bool"],
         required |-> {"name"}],
     bash_run |->
        [fields |-> [command |-> "str", timeout |-> "int", cwd |-> "str",
                     dry_run |-> "bool"],
         required |-> {"command"}]]

\* BashRunParams.timeout: Field(ge=1, le=300); "0" is the one integer of the
\* model outside the range
TimeoutInRange(v) == v # "0"

\* (mutation of ValidationErrors) unknown keys are ignored instead of forbidden
ValidationErrorsExtraIgnored(tool, raw) ==
    LET model == ParamsModel[tool]
        known == DOMAIN model.fields
    IN {<<f, "missing">> : f \in model.required \ Keys(raw)}
       \cup {<<f, "type">> :
               f \in {g \in Keys(raw) \cap known : JsonType(raw[g]) # model.fields[g]}}
       \cup {<<f, "Path must be absolute (start with /)">> :
               f \in {g \in Keys(raw) \cap known :
                        /\ tool = "project_focus" /\ g = "path"
                        /\ JsonType(raw[g]) = "str" /\ ~IsAbsolute(raw[g])}}
       \cup {<<f, "greater_than_equal">> :
               f \in {g \in Keys(raw) \cap known :
                        /\ tool = "bash_run" /\ g = "timeout"
                        /\ JsonType(raw[g]) = "int" /\ ~TimeoutInRange(raw[g])}}

\* the errors model_validate collects; empty when the map is accepted
ValidationErrors(tool, raw) ==
    LET model == ParamsModel[tool]
        known == DOMAIN model.fields
    IN {<<f, "extra_forbidden">> : f \in Keys(raw) \ known}
       \cup {<<f, "missing">> : f \in model.required \ Keys(raw)}
       \cup {<<f, "type">> :
               f \in {g \in Keys(raw) \cap known : JsonType(raw[g]) # model.fields[g]}}
       \cup {<<f, "Path must be absolute (start with /)">> :
               f \in {g \in Keys(raw) \cap known :
                        /\ tool = "project_focus" /\ g = "path"
                        /\ JsonType(raw[g]) = "str" /\ ~IsAbsolute(raw[g])}}
       \cup {<<f, "greater_than_equal">> :
               f \in {g \in Keys(raw) \cap known :
                        /\ tool = "bash_run" /\ g = "timeout"
                        /\ JsonType(raw[g]) = "int" /\ ~TimeoutInRange(raw[g])}}

\* BaseTool.validate_params: accepted or not
validate_params(tool, raw) == ValidationErrors(tool, raw) = {}

\* (mutation of ParamsDryRun) the flag is dropped by validation
ParamsDryRunDropped(raw) == FALSE

\* params.dry_run of the validated model (default False)
ParamsDryRun(raw) == raw.dry_run = "true"

\* ------------------------------------------------------------------ state
VARIABLES
    logs,        \* session id -> the records of its log file (<<>>: no file)
    mtime,       \* session id -> modification time of its log file, in seconds
    now,         \* the wall clock, in seconds
    dirs,        \* the absolute paths that are existing directories
    pc,          \* position of the running invocation in main / run
    args,        \* the command-line arguments main has read so far
    session,     \* the Session object of the invocation
    context,     \* ProjectContext._focus_path of the invocation
    local,       \* locals of BaseTool.run: validated params, outcome, response
    stdout,      \* what the invocation has printed to standard output
    exit_code,   \* the process exit code (Running until the process ends)
    hist,        \* history of the running invocation, for the properties
    invocations, \* number of finished process invocations
    ret,         \* value returned by the last Session / SessionManager call
    registry,    \* tools.base._tool_registry: the registered classes, in order
    writers,     \* the Session objects of processes working concurrently
    resolver     \* a ProjectContext object used through its own methods

fs == <<logs, mtime, now, dirs>>
proc == <<pc, args, context, local, stdout, exit_code, hist, invocations>>
aux == <<registry, writers, resolver>>
vars == <<logs, mtime, now, dirs, pc, args, session, context, local, stdout,
          exit_code, hist, invocations, ret, registry, writers, resolver>>

\* ------------------------------------------------------------ file system
FileExists(id) == logs[id] # <<>>

\* timedelta(hours=SESSION_TTL_HOURS), in seconds
TTL == SESSION_TTL_HOURS * 3600

\* (mutation of is_expired) a log is expired from the boundary instant on
is_expiredAtBoundary(id) ==
    IF ~FileExists(id) THEN TRUE
    ELSE now >= mtime[id] + TTL

\* Session.is_expired
is_expired(id) ==
    IF ~FileExists(id) THEN TRUE
    ELSE now > mtime[id] + TTL

\* ----------------------------------------------------------- Session ops
\* (mutation of append) the file is opened for writing, not for appending
appendTruncating(sess, entry) ==
    LET loaded == _load(sess, logs[sess.session_id]) IN
    [session |-> [loaded EXCEPT !._entries = Append(@, entry)],
     file |-> <<entry>>]

\* Session.append: load if needed, push on _entries, append one line to the file.
\* Yields the Session object and the file after the call.
append(sess, entry) ==
    LET loaded == _load(sess, logs[sess.session_id]) IN
    [session |-> [loaded EXCEPT !._entries = Append(@, entry)],
     file |-> Append(logs[sess.session_id], entry)]

\* (mutation of log_tool_call) the validated defaults are logged, not the raw map
log_tool_callNoRawParams(sess, tool, params, result, error) ==
    append(sess, SessionEntry("tool_call", tool, NoParams, result, error,
                              <<sess._project_focus>>))

\* Session.log_tool_call: the snapshot is the _project_focus attribute as it is
\* when the entry is created, before append loads anything.
log_tool_call(sess, tool, params, result, error) ==
    append(sess, SessionEntry("tool_call", tool, params, result, error,
                              <<sess._project_focus>>))

\* Session.log_context_change
log_context_change(sess, focus) ==
    append([sess EXCEPT !._project_focus = focus],
           SessionEntry("context_change", Null, NoParams, NoResult, NoError,
                        <<focus>>))

\* Python slice seq[-limit:]
LastSlice(seq, limit) ==
    LET n == Len(seq)
        start == IF limit = 0 THEN 0
                 ELSE IF limit >= n THEN 0 ELSE n - limit
    IN SubSeq(seq, start + 1, n)

\* Session.get_history
get_history(sess, limit) ==
    LastSlice(_load(sess, logs[sess.session_id])._entries, limit)

\* Session.project_focus (property getter)
project_focus(sess) == _load(sess, logs[sess.session_id])._project_focus

\* the effect of a write on the files
Written(w) ==
    /\ logs' = [logs EXCEPT ![w.session.session_id] = w.file]
    /\ mtime' = [mtime EXCEPT ![w.session.session_id] = now]

RECURSIVE TotalRecords(_)
TotalRecords(ids) ==
    IF ids = {} THEN 0
    ELSE LET id == CHOOSE x \in ids : TRUE
         IN Len(logs[id]) + TotalRecords(ids \ {id})

\* room for n more records within the bound
HasRoom(n) == TotalRecords(SessionIds) + n <= MaxLog

\* ------------------------------------------------------ SessionManager ops
\* SessionManager.generate_session_id draws a random suffix: any identifier of
\* the space, with no check against the logs that exist.
generate_session_id == SessionIds

\* SessionManager.create_session, for the identifier drawn
create_session(session_id) ==
    append(NewSession(session_id), LifecycleEntry("session_start"))

\* (mutation of CanResume) an expired log is resumed
CanResumeExpired(session_id) == FileExists(session_id)

\* SessionManager.resume_session returns None unless this holds
CanResume(session_id) == FileExists(session_id) /\ ~is_expired(session_id)

\* (mutation of resume_session) the resume is not recorded in the log
resume_sessionUnlogged(session_id) ==
    [session |-> _load(NewSession(session_id), logs[session_id]),
     file |-> logs[session_id]]

\* SessionManager.resume_session, when it does not return None
resume_session(session_id) ==
    append(_load(NewSession(session_id), logs[session_id]),
           LifecycleEntry("session_resume"))

\* the orders session_files.sort(key=mtime, reverse=True) can produce: glob
\* lists the files in arbitrary order and the sort keeps ties as listed
SortedSessionFiles ==
    LET files == {id \in SessionIds : FileExists(id)}
        n == Cardinality(files)
    IN {o \in [1..n -> files] :
          /\ \A i, j \in 1..n : i # j => o[i] # o[j]
          /\ \A i, j \in 1..n : i < j => mtime[o[i]] >= mtime[o[j]]}

\* (mutation of FirstNotExpired) the last file of the order that is not expired
FirstNotExpiredOldest(order) ==
    LET live == {i \in 1..Len(order) : ~is_expired(order[i])} IN
    IF live = {} THEN Null
    ELSE order[CHOOSE i \in live : \A j \in live : i >= j]

\* the loop of continue_last_session: the first file that is not expired
FirstNotExpired(order) ==
    LET live == {i \in 1..Len(order) : ~is_expired(order[i])} IN
    IF live = {} THEN Null
    ELSE order[CHOOSE i \in live : \A j \in live : i <= j]

\* SessionManager.continue_last_session, when it does not return None
continue_last_session(session_id) ==
    append(_load(NewSession(session_id), logs[session_id]),
           LifecycleEntry("session_continue"))

\* (mutation of get_or_create_session) continue-last is consulted before resume
get_or_create_sessionContinueFirst(resume_id, continue_last, order, new_id) ==
    IF continue_last /\ FirstNotExpired(order) # Null
    THEN continue_last_session(FirstNotExpired(order))
    ELSE IF resume_id # Null /\ CanResume(resume_id)
    THEN resume_session(resume_id)
    ELSE create_session(new_id)

\* SessionManager.get_or_create_session: the write it performs, given the
\* order the sort produced and the identifier create_session would draw
get_or_create_session(resume_id, continue_last, order, new_id) ==
    IF resume_id # Null /\ CanResume(resume_id)
    THEN resume_session(resume_id)
    ELSE IF continue_last /\ FirstNotExpired(order) # Null
    THEN continue_last_session(FirstNotExpired(order))
    ELSE create_session(new_id)

\* (mutation of cleanup_expired) the sweep removes every log it lists
cleanup_expiredEverything(files) ==
    [logs |-> [id \in SessionIds |-> IF id \in files THEN <<>> ELSE logs[id]],
     deleted |-> Cardinality(files)]

\* SessionManager.cleanup_expired over the files glob listed: the directory
\* after the sweep and the count returned
cleanup_expired(files) ==
    [logs |-> [id \in SessionIds |->
                  IF id \in files /\ is_expired(id) THEN <<>> ELSE logs[id]],
     deleted |-> Cardinality({id \in files : is_expired(id)})]

\* SessionManager.list_sessions: read only; sorted newest first
SessionInfo(id) ==
    [session_id |-> id, last_modified |-> mtime[id], expired |-> is_expired(id),
     project_focus |-> project_focus(NewSession(id))]

list_sessions(include_expired, order) ==
    SelectSeq([i \in 1..Len(order) |-> SessionInfo(order[i])],
              LAMBDA s : include_expired \/ ~s.expired)

\* ---------------------------------------------------------- initial state
NoArgs == [tool |-> Null, params |-> NoParams, auto_approve |-> FALSE]
NoRet == [op |-> Null, value |-> Null]

\* ContextInfo, ErrorDetail and ToolResponse of schemas/responses.py
ContextInfo(project, session_id) == [project |-> project, session_id |-> session_id]
NoErrorDetail == [type |-> Null, message |-> {}, tool |-> Null]

ToolResponse(success, session_id, tool, approval_level, dry_run, result, ctx, error) ==
    [success |-> success, session_id |-> session_id, tool |-> tool,
     approval_level |-> approval_level, dry_run |-> dry_run, result |-> result,
     context |-> ctx, error |-> error]

\* (mutation of success_response) the result is left out of a successful envelope
success_responseNullResult(session_id, tool, approval_level, result, ctx, dry_run) ==
    ToolResponse(TRUE, session_id, tool, approval_level, dry_run, NoResult, ctx,
                 NoErrorDetail)

\* ToolResponse.success_response
success_response(session_id, tool, approval_level, result, ctx, dry_run) ==
    ToolResponse(TRUE, session_id, tool, approval_level, dry_run, result, ctx,
                 NoErrorDetail)

\* (mutation of error_response) every failure is reported under one generic kind
error_responseGenericKind(session_id, tool, approval_level, error_type, error_message, ctx) ==
    ToolResponse(FALSE, session_id, tool, approval_level, FALSE, NoResult, ctx,
                 [type |-> "ToolError", message |-> error_message, tool |-> tool])

\* ToolResponse.error_response
error_response(session_id, tool, approval_level, error_type, error_message, ctx) ==
    ToolResponse(FALSE, session_id, tool, approval_level, FALSE, NoResult, ctx,
                 [type |-> error_type, message |-> error_message, tool |-> tool])

\* agent.create_error_response
create_error_response(error_type, message, tool, session_id) ==
    ToolResponse(FALSE, session_id, tool, "none", FALSE, NoResult,
                 ContextInfo(Null, Null),
                 [type |-> error_type, message |-> message, tool |-> tool])

\* the envelopes of --list-tools and --list-sessions
list_response(tool) ==
    ToolResponse(TRUE, "none", tool, "none", FALSE,
                 [NoResult EXCEPT !.kind = tool], ContextInfo(Null, Null),
                 NoErrorDetail)

NoResponse ==
    ToolResponse(FALSE, Null, Null, Null, FALSE, NoResult, ContextInfo(Null, Null),
                 NoErrorDetail)

NoLocal == [context_info |-> ContextInfo(Null, Null), dry_run |-> FALSE,
            result |-> NoResult, error |-> NoError, response |-> NoResponse]
NoHist == [entries0 |-> 0, records0 |-> 0, executed |-> 0, phases |-> <<>>]

\* a registered tool class: its metadata and the class itself
ToolClass(name, approval_level, description, params_model, impl) ==
    [name |-> name, approval_level |-> approval_level,
     description |-> description, params_model |-> params_model, impl |-> impl]

\* _tool_registry after `import tools`, in the order the modules register
ImportedTools ==
    <<ToolClass("project_focus", AUTO, "Set the current project context",
                "ProjectFocusParams", "ProjectFocusTool"),
      ToolClass("service_stop", EXPLICIT, "Stop a running service",
                "ServiceControlParams", "ServiceStopTool"),
      ToolClass("service_restart", CONFIRM, "Restart a service",
                "ServiceControlParams", "ServiceRestartTool"),
      ToolClass("bash_run", EXPLICIT, "Execute arbitrary bash commands",
                "BashRunParams", "BashRunTool")>>

\* the processes that work on the session directory at the same time
Procs == {1, 2}

NoWriters ==
    [p \in Procs |->
        [session |-> NoSession, pc |-> "idle",
         entry |-> LifecycleEntry("session_start"), wrote |-> <<>>]]

\* ProjectContext.__init__ without a focus: _focus_path is None (<<>>), a set
\* focus is <<p>> for the Path p
NoContext == [_focus_path |-> <<>>]

\* a process starts with nothing read, nothing resolved and nothing printed
FreshProcess ==
    /\ pc = "idle"
    /\ args = NoArgs
    /\ session = NoSession
    /\ context = Null
    /\ local = NoLocal
    /\ stdout = <<>>
    /\ exit_code = Running
    /\ hist = NoHist
    /\ invocations = 0
    /\ ret = NoRet
    /\ registry = ImportedTools
    /\ writers = NoWriters
    /\ resolver = NoContext

\* the session directory before any session was created
NoLogs == [id \in SessionIds |-> <<>>]

\* session directories earlier invocations leave behind: an unfocused session
\* (one service_restart call) and a session focused on /p (one project_focus)
UnfocusedLog ==
    <<LifecycleEntry("session_start"),
      SessionEntry("tool_call", "service_restart",
                   [NoParams EXCEPT !.name = "nginx"],
                   [NoResult EXCEPT !.kind = "data"], NoError, <<Null>>)>>

FocusedLog ==
    <<LifecycleEntry("session_start"),
      SessionEntry("context_change", Null, NoParams, NoResult, NoError, <<"/p">>),
      SessionEntry("tool_call", "project_focus",
                   [NoParams EXCEPT !.path = "/p"],
                   [NoResult EXCEPT !.kind = "data"], NoError, <<"/p">>)>>

EarlierLogs ==
    {NoLogs,
     [NoLogs EXCEPT !["sess_a"] = UnfocusedLog],
     [NoLogs EXCEPT !["sess_a"] = FocusedLog]}

\* the Session API is exercised from an empty session directory
InitSession ==
    /\ logs = NoLogs
    /\ mtime = [id \in SessionIds |-> 0]
    /\ now = 0
    /\ dirs = AbsDirs
    /\ FreshProcess

\* the command line is exercised on each of the earlier session directories
Init ==
    /\ logs \in EarlierLogs
    /\ mtime = [id \in SessionIds |-> 0]
    /\ now = 0
    /\ dirs = AbsDirs
    /\ FreshProcess

\* ------------------------------------------------------------ environment
EnvRmdir(d) ==
    /\ pc = "idle"
    /\ d \in dirs
    /\ dirs' = dirs \ {d}
    /\ UNCHANGED <<logs, mtime, now, session, ret>>
    /\ UNCHANGED proc
    /\ UNCHANGED aux

EnvMkdir(d) ==
    /\ pc = "idle"
    /\ d \notin dirs
    /\ dirs' = dirs \cup {d}
    /\ UNCHANGED <<logs, mtime, now, session, ret>>
    /\ UNCHANGED proc
    /\ UNCHANGED aux

\* ------------------------------------------- the Session API, call by call
\* the tool_call payloads the API calls are made with
ApiCalls ==
    {[tool |-> "service_stop", result |-> NoResult,
      error |-> [type |-> "ValueError", message |-> {"no such service"}]],
     [tool |-> "service_stop",
      result |-> [NoResult EXCEPT !.kind = "data"], error |-> NoError]}

\* Session(session_id): a fresh, not yet loaded object
ApiSession(id) ==
    /\ session' = NewSession(id)
    /\ ret' = NoRet
    /\ UNCHANGED fs /\ UNCHANGED proc
    /\ UNCHANGED aux

ApiCreateSession(id) ==
    /\ HasRoom(1)
    /\ LET w == create_session(id) IN
         Written(w) /\ session' = w.session
    /\ ret' = NoRet
    /\ UNCHANGED <<now, dirs>> /\ UNCHANGED proc
    /\ UNCHANGED aux

ApiResumeSession(id) ==
    /\ HasRoom(1)
    /\ IF CanResume(id)
       THEN LET w == resume_session(id) IN
            Written(w) /\ session' = w.session /\ ret' = NoRet
       ELSE ret' = [op |-> "resume_session", value |-> Null]
            /\ UNCHANGED <<logs, mtime, session>>
    /\ UNCHANGED <<now, dirs>> /\ UNCHANGED proc
    /\ UNCHANGED aux

ApiContinueLastSession(order) ==
    /\ HasRoom(1)
    /\ IF FirstNotExpired(order) # Null
       THEN LET w == continue_last_session(FirstNotExpired(order)) IN
            Written(w) /\ session' = w.session /\ ret' = NoRet
       ELSE ret' = [op |-> "continue_last_session", value |-> Null]
            /\ UNCHANGED <<logs, mtime, session>>
    /\ UNCHANGED <<now, dirs>> /\ UNCHANGED proc
    /\ UNCHANGED aux

ApiLogToolCall(c) ==
    /\ session.session_id # Null
    /\ HasRoom(1)
    /\ LET w == log_tool_call(session, c.tool, NoParams, c.result, c.error) IN
         Written(w) /\ session' = w.session
    /\ ret' = NoRet
    /\ UNCHANGED <<now, dirs>> /\ UNCHANGED proc
    /\ UNCHANGED aux

ApiLogContextChange(f) ==
    /\ session.session_id # Null
    /\ HasRoom(1)
    /\ LET w == log_context_change(session, f) IN
         Written(w) /\ session' = w.session
    /\ ret' = NoRet
    /\ UNCHANGED <<now, dirs>> /\ UNCHANGED proc
    /\ UNCHANGED aux

ApiGetHistory(limit) ==
    /\ session.session_id # Null
    /\ session' = _load(session, logs[session.session_id])
    /\ ret' = [op |-> "get_history", value |-> get_history(session, limit),
               limit |-> limit]
    /\ UNCHANGED fs /\ UNCHANGED proc
    /\ UNCHANGED aux

\* reading the project_focus property replays the log
ApiProjectFocus ==
    /\ session.session_id # Null
    /\ session' = _load(session, logs[session.session_id])
    /\ ret' = [op |-> "project_focus", value |-> project_focus(session)]
    /\ UNCHANGED fs /\ UNCHANGED proc
    /\ UNCHANGED aux

ApiListSessions(include_expired, order) ==
    /\ ret' = [op |-> "list_sessions",
               value |-> list_sessions(include_expired, order)]
    /\ UNCHANGED <<fs, session>> /\ UNCHANGED proc
    /\ UNCHANGED aux

NextSession ==
    \/ \E id \in SessionIds : ApiSession(id)
    \/ \E id \in generate_session_id : ApiCreateSession(id)
    \/ \E id \in SessionIds : ApiResumeSession(id)
    \/ \E order \in SortedSessionFiles : ApiContinueLastSession(order)
    \/ \E c \in ApiCalls : ApiLogToolCall(c)
    \/ \E f \in Focus : ApiLogContextChange(f)
    \/ \E limit \in 0..2 : ApiGetHistory(limit)
    \/ ApiProjectFocus
    \/ \E ie \in BOOLEAN, order \in SortedSessionFiles : ApiListSessions(ie, order)

SpecSession == InitSession /\ [][NextSession]_vars

\* ------------------------------------- session resolution as time passes
\* the instants the clock is observed at: around each window boundary
Instants ==
    {t \in {k * TTL + e : k \in 0..MaxClock, e \in {-1, 0, 1}} : t >= 0}

\* datetime.now() has advanced to a later instant
Tick(t) ==
    /\ t > now
    /\ now' = t
    /\ UNCHANGED <<logs, mtime, dirs, session, ret>> /\ UNCHANGED proc
    /\ UNCHANGED aux

ApiGetOrCreateSession(resume_id, continue_last, order, new_id) ==
    /\ HasRoom(1)
    /\ LET w == get_or_create_session(resume_id, continue_last, order, new_id) IN
         Written(w) /\ session' = w.session
    /\ ret' = [op |-> "get_or_create_session",
               value |-> <<resume_id, continue_last>>]
    /\ UNCHANGED <<now, dirs>> /\ UNCHANGED proc
    /\ UNCHANGED aux

ApiIsExpired(id) ==
    /\ ret' = [op |-> "is_expired", value |-> <<id, is_expired(id)>>]
    /\ UNCHANGED <<fs, session>> /\ UNCHANGED proc
    /\ UNCHANGED aux

ApiCleanupExpired ==
    /\ LET swept == cleanup_expired({id \in SessionIds : FileExists(id)}) IN
         /\ logs' = swept.logs
         /\ mtime' = [id \in SessionIds |->
                         IF swept.logs[id] = <<>> THEN 0 ELSE mtime[id]]
         /\ ret' = [op |-> "cleanup_expired", value |-> swept.deleted]
    /\ UNCHANGED <<now, dirs, session>> /\ UNCHANGED proc
    /\ UNCHANGED aux

NextExpiry ==
    \/ \E t \in Instants : Tick(t)
    \/ \E resume_id \in SessionIds \cup {Null}, continue_last \in BOOLEAN,
          order \in SortedSessionFiles, new_id \in generate_session_id :
            ApiGetOrCreateSession(resume_id, continue_last, order, new_id)
    \/ \E id \in SessionIds : ApiIsExpired(id)
    \/ \E c \in ApiCalls : ApiLogToolCall(c)

SpecExpiry == InitSession /\ [][NextExpiry]_vars

\* the sweep, among the calls that resolve, read and list sessions
NextCleanup ==
    \/ \E t \in Instants : Tick(t)
    \/ \E resume_id \in SessionIds \cup {Null}, continue_last \in BOOLEAN,
          order \in SortedSessionFiles, new_id \in generate_session_id :
            ApiGetOrCreateSession(resume_id, continue_last, order, new_id)
    \/ \E limit \in 1..2 : ApiGetHistory(limit)
    \/ ApiProjectFocus
    \/ \E ie \in BOOLEAN, order \in SortedSessionFiles : ApiListSessions(ie, order)
    \/ ApiCleanupExpired

SpecCleanup == InitSession /\ [][NextCleanup]_vars

\* ------------------------------- two processes appending to the same log
\* the log both processes resolved (for instance with --continue)
SharedLog == "sess_a"

\* the records a process logs: tool calls of a tool of its own, so that a
\* line of the log tells which process wrote it
WriterTool(p) == IF p = 1 THEN "service_stop" ELSE "service_restart"

WriterEntries(p) ==
    {SessionEntry("tool_call", WriterTool(p), [NoParams EXCEPT !.name = "nginx"],
                  c.result, c.error, <<Null>>) : c \in ApiCalls}

\* records in the log plus records whose write is still to come
Pending == Cardinality({p \in Procs : writers[p].pc = "open"})

\* (mutation of FileWrite) the file is rewritten from the entries the process
\* holds in memory
FileWriteRewriting(sess, file, entry) == sess._entries

\* open(session_file, "a") and f.write(line): the whole line goes out in one
\* write at the end of the file as it is when the write happens
FileWrite(sess, file, entry) == Append(file, entry)

\* Session(session_id) in process p
WriterSession(p) ==
    /\ writers[p].pc = "idle"
    /\ writers' = [writers EXCEPT ![p].session = NewSession(SharedLog),
                                  ![p].pc = "ready"]
    /\ UNCHANGED fs /\ UNCHANGED proc /\ UNCHANGED <<session, ret, registry, resolver>>

\* Session.append up to the open(): lazy load, push on _entries, open for append
WriterAppend(p, entry) ==
    /\ writers[p].pc = "ready"
    /\ Len(logs[SharedLog]) + Pending + 1 <= MaxLog
    /\ writers' = [writers EXCEPT
           ![p].session = [_load(@, logs[SharedLog]) EXCEPT
                              !._entries = Append(@, entry)],
           ![p].entry = entry,
           ![p].pc = "open"]
    /\ UNCHANGED fs /\ UNCHANGED proc /\ UNCHANGED <<session, ret, registry, resolver>>

\* Session.append, the f.write and the close of the with block
WriterWrite(p) ==
    /\ writers[p].pc = "open"
    /\ logs' = [logs EXCEPT ![SharedLog] =
                   FileWrite(writers[p].session, @, writers[p].entry)]
    /\ mtime' = [mtime EXCEPT ![SharedLog] = now]
    /\ writers' = [writers EXCEPT ![p].wrote = Append(@, writers[p].entry),
                                  ![p].pc = "ready"]
    /\ UNCHANGED <<now, dirs>> /\ UNCHANGED proc
    /\ UNCHANGED <<session, ret, registry, resolver>>

NextConcurrent ==
    \/ \E p \in Procs : WriterSession(p)
    \/ \E p \in Procs : \E entry \in WriterEntries(p) : WriterAppend(p, entry)
    \/ \E p \in Procs : WriterWrite(p)

SpecConcurrent == InitSession /\ [][NextConcurrent]_vars

\* ------------------------- two invocations at once on one resumable session
\* the session directory holds the log of an earlier invocation
InitResumable ==
    /\ logs \in EarlierLogs \ {NoLogs}
    /\ mtime = [id \in SessionIds |-> 0]
    /\ now = 0
    /\ dirs = AbsDirs
    /\ FreshProcess

\* main in process p: resume_session loads the log and appends session_resume;
\* execute_tool then builds the ProjectContext from the loaded focus
InvokeResume(p) ==
    /\ writers[p].pc = "idle"
    /\ CanResume(SharedLog)
    /\ LET w == resume_session(SharedLog) IN
         /\ Written(w)
         /\ writers' = [writers EXCEPT ![p].session = w.session,
                                       ![p].entry = LifecycleEntry("session_resume"),
                                       ![p].wrote = Append(@, LifecycleEntry("session_resume")),
                                       ![p].pc = "ready"]
    /\ UNCHANGED <<now, dirs>> /\ UNCHANGED proc
    /\ UNCHANGED <<session, ret, registry, resolver>>

\* ProjectFocusTool.execute in process p: set_focus, log_context_change
InvokeFocus(p, path) ==
    /\ writers[p].pc = "ready"
    /\ IsAbsolute(path) /\ path \in dirs
    /\ LET w == log_context_change(writers[p].session, path) IN
         /\ Written(w)
         /\ writers' = [writers EXCEPT ![p].session = w.session,
                                       ![p].entry = w.file[Len(w.file)],
                                       ![p].wrote = Append(@, w.file[Len(w.file)]),
                                       ![p].pc = "focused"]
    /\ UNCHANGED <<now, dirs>> /\ UNCHANGED proc
    /\ UNCHANGED <<session, ret, registry, resolver>>

\* the execute of another tool in process p: relative paths are resolved
\* against the ProjectContext built from the session's focus
InvokeExecute(p) ==
    /\ writers[p].pc = "ready"
    /\ writers' = [writers EXCEPT ![p].pc = "executed"]
    /\ UNCHANGED fs /\ UNCHANGED proc
    /\ UNCHANGED <<session, ret, registry, resolver>>

\* run in process p after execute: session.log_tool_call
InvokeLog(p) ==
    /\ writers[p].pc \in {"focused", "executed"}
    /\ LET tool == IF writers[p].pc = "focused" THEN "project_focus"
                   ELSE WriterTool(p)
           w == log_tool_call(writers[p].session, tool, NoParams,
                              [NoResult EXCEPT !.kind = "data"], NoError)
       IN /\ Written(w)
          /\ writers' = [writers EXCEPT ![p].session = w.session,
                                        ![p].entry = w.file[Len(w.file)],
                                        ![p].wrote = Append(@, w.file[Len(w.file)]),
                                        ![p].pc = "done"]
    /\ UNCHANGED <<now, dirs>> /\ UNCHANGED proc
    /\ UNCHANGED <<session, ret, registry, resolver>>

NextInvocations ==
    \/ \E p \in Procs : InvokeResume(p)
    \/ \E p \in Procs : \E path \in AbsDirs : InvokeFocus(p, path)
    \/ \E p \in Procs : InvokeExecute(p)
    \/ \E p \in Procs : InvokeLog(p)

SpecInvocations == InitResumable /\ [][NextInvocations]_vars

\* ------------------------------- the sweep while another process resolves
\* resume_session in process p up to its checks: the file exists and is not
\* expired
ResumeCheck(p, id) ==
    /\ writers[p].pc = "idle"
    /\ CanResume(id)
    /\ writers' = [writers EXCEPT ![p].session = NewSession(id),
                                  ![p].entry = LifecycleEntry("session_resume"),
                                  ![p].pc = "checked"]
    /\ UNCHANGED fs /\ UNCHANGED proc
    /\ UNCHANGED <<session, ret, registry, resolver>>

\* continue_last_session in process p up to the is_expired check of the loop
ContinueCheck(p, order) ==
    /\ writers[p].pc = "idle"
    /\ FirstNotExpired(order) # Null
    /\ writers' = [writers EXCEPT ![p].session = NewSession(FirstNotExpired(order)),
                                  ![p].entry = LifecycleEntry("session_continue"),
                                  ![p].pc = "checked"]
    /\ UNCHANGED fs /\ UNCHANGED proc
    /\ UNCHANGED <<session, ret, registry, resolver>>

\* the rest of resume_session and continue_last_session: session._load() and
\* session.append(entry), on the file as it is by then
ResolveAppend(p) ==
    /\ writers[p].pc = "checked"
    /\ LET w == append(writers[p].session, writers[p].entry) IN
         /\ Written(w)
         /\ writers' = [writers EXCEPT ![p].session = w.session,
                                       ![p].wrote = Append(@, writers[p].entry),
                                       ![p].pc = "ready"]
    /\ UNCHANGED <<now, dirs>> /\ UNCHANGED proc
    /\ UNCHANGED <<session, ret, registry, resolver>>

\* one process resolves and runs a tool while the sweep runs in another
NextSweep ==
    \/ \E t \in Instants : Tick(t)
    \/ \E id \in SessionIds : ResumeCheck(1, id)
    \/ \E order \in SortedSessionFiles : ContinueCheck(1, order)
    \/ ResolveAppend(1)
    \/ \E path \in AbsDirs : InvokeFocus(1, path)
    \/ InvokeExecute(1)
    \/ InvokeLog(1)
    \/ ApiCleanupExpired

SpecSweep == InitResumable /\ [][NextSweep]_vars

\* ------------------------------------------------- paths and the resolver
\* A string is the sequence of its characters. A Path is what pathlib keeps of
\* a string: the root and the components.
MaxPathLen == 3

\* every string of up to MaxPathLen characters of "/", "." and "a"
\* and longer ones: nested names, the sibling /a2, the symbolic link /a/l
PathStrings ==
    UNION {[1..k -> {"/", ".", "a"}] : k \in 0..MaxPathLen} \cup
    {<<"/", "a", "2">>, <<"/", "a", "2", "/", "x">>, <<"/", "b">>,
     <<"/", "a", "/", "f">>, <<"/", "a", "/", "l">>,
     <<"/", "a", "/", "l", "/", "x">>, <<"/", "a", "/", ".", "/", "f">>,
     <<"/", "a", "/", "/", "f">>, <<"/", "a", "/", ".", ".">>,
     <<"/", "a", "/", "f", "/">>, <<"/", "a", "/", "l", "/", ".", ".">>,
     <<"/", "a", "/", "x", "/", ".", ".", "/", "f">>,
     <<"/", "/", "/", "a", "/", "f">>, <<"/", "/", "a", "2">>,
     <<"f">>, <<"x">>, <<".", "/", "f">>, <<"x", "/", ".", ".", "/", "f">>,
     <<"l">>, <<"l", "/", "x">>, <<"l", "/", ".", ".", "/", "x">>,
     <<".", ".", "/", "a", "2">>, <<".", ".", "/", "a", "2", "/", "x">>,
     <<".", ".", "/", ".", ".", "/", "b">>}

\* the directory tree the process sees: directories /, /a, /a2 and /b, the
\* file /a/f and the symbolic link /a/l -> /b; a node is its component list
DirNodes == {<<>>, << <<"a">> >>, << <<"a", "2">> >>, << <<"b">> >>}
FileNodes == {<< <<"a">>, <<"f">> >>}
LinkNodes == {<< <<"a">>, <<"l">> >>}
LinkTarget(node) == << <<"b">> >>

\* lstat: the kind of a node, the link itself for a symbolic link
Kind(node) ==
    IF node \in DirNodes THEN "dir"
    ELSE IF node \in FileNodes THEN "file"
    ELSE IF node \in LinkNodes THEN "link"
    ELSE "none"

Dot == <<".">>
DotDot == <<".", ".">>
Parent(node) == IF node = <<>> THEN <<>> ELSE SubSeq(node, 1, Len(node) - 1)

\* str.split("/")
RECURSIVE Split(_)
Split(s) ==
    IF s = <<>> THEN << <<>> >>
    ELSE LET rest == Split(Tail(s)) IN
         IF Head(s) = "/" THEN << <<>> >> \o rest
         ELSE << <<Head(s)>> \o Head(rest) >> \o Tail(rest)

\* the root pathlib parses: "/", or "//" for exactly two leading slashes
Root(s) ==
    IF Len(s) >= 1 /\ s[1] = "/"
    THEN IF Len(s) >= 2 /\ s[2] = "/" /\ (Len(s) = 2 \/ s[3] # "/")
         THEN <<"/", "/">> ELSE <<"/">>
    ELSE <<>>

\* Path(s): empty and "." segments are dropped, ".." is kept
Path(s) ==
    LET Kept(seg) == seg # <<>> /\ seg # Dot
    IN [root |-> Root(s), parts |-> SelectSeq(Split(s), Kept)]

RECURSIVE JoinParts(_)
JoinParts(parts) ==
    IF parts = <<>> THEN <<>>
    ELSE IF Len(parts) = 1 THEN parts[1]
    ELSE parts[1] \o <<"/">> \o JoinParts(Tail(parts))

\* str(Path)
str(p) ==
    IF p.root = <<>> /\ p.parts = <<>> THEN Dot
    ELSE p.root \o JoinParts(p.parts)

\* Path.is_absolute
is_absolute(p) == p.root # <<>>

\* Path.__truediv__ with a relative right operand
JoinPath(base, p) == [root |-> base.root, parts |-> base.parts \o p.parts]

\* the node a path names, symbolic links followed, "none" when the walk fails
RECURSIVE StatWalk(_, _)
StatWalk(node, rest) ==
    IF rest = <<>> THEN node
    ELSE IF node = <<"none">> \/ Kind(node) # "dir" THEN <<"none">>
    ELSE IF Head(rest) = DotDot THEN StatWalk(Parent(node), Tail(rest))
    ELSE LET child == Append(node, Head(rest)) IN
         IF Kind(child) = "none" THEN <<"none">>
         ELSE IF Kind(child) = "link"
              THEN StatWalk(LinkTarget(child), Tail(rest))
         ELSE StatWalk(child, Tail(rest))

\* Path.exists and Path.is_dir of an absolute path
exists(p) == StatWalk(<<>>, p.parts) # <<"none">>
is_dir(p) == exists(p) /\ Kind(StatWalk(<<>>, p.parts)) = "dir"

\* os.path.realpath, not strict: ".." drops the last resolved component, a
\* symbolic link is replaced by its target, a missing name is kept as written
RECURSIVE RealWalk(_, _)
RealWalk(done, rest) ==
    IF rest = <<>> THEN done
    ELSE IF Head(rest) = DotDot THEN RealWalk(Parent(done), Tail(rest))
    ELSE LET newpath == Append(done, Head(rest)) IN
         IF Kind(newpath) = "link"
         THEN RealWalk(LinkTarget(newpath), Tail(rest))
         ELSE RealWalk(newpath, Tail(rest))

\* Path.resolve of an absolute path
resolve(p) == [root |-> <<"/">>, parts |-> RealWalk(<<>>, p.parts)]

\* str.startswith
startswith(s, prefix) ==
    Len(prefix) <= Len(s) /\ SubSeq(s, 1, Len(prefix)) = prefix

\* the outcome of a call: the exception raised (Null when none), the Path
\* returned (<<>> when none) and the boolean returned
Outcome(raised, path, bool) == [raised |-> raised, path |-> path, bool |-> bool]
Returned(p) == Outcome(Null, <<p>>, FALSE)
Raised(message) == Outcome(message, <<>>, FALSE)

\* (mutation of set_focus) a failed call clears the focus
set_focusClearing(ctx, path) ==
    LET p == Path(path) IN
    IF ~is_absolute(p) THEN
         [out |-> Raised("ValueError: Project path must be absolute"), ctx |-> NoContext]
    ELSE IF ~exists(p) THEN
         [out |-> Raised("ValueError: Project path does not exist"), ctx |-> NoContext]
    ELSE IF ~is_dir(p) THEN
         [out |-> Raised("ValueError: Project path is not a directory"), ctx |-> NoContext]
    ELSE [out |-> Outcome(Null, <<>>, FALSE), ctx |-> [_focus_path |-> <<p>>]]

\* ProjectContext.set_focus: the outcome and the focus after the call
set_focus(ctx, path) ==
    LET p == Path(path) IN
    IF ~is_absolute(p) THEN
         [out |-> Raised("ValueError: Project path must be absolute"), ctx |-> ctx]
    ELSE IF ~exists(p) THEN [out |-> Raised("ValueError: Project path does not exist"), ctx |-> ctx]
    ELSE IF ~is_dir(p) THEN
         [out |-> Raised("ValueError: Project path is not a directory"), ctx |-> ctx]
    ELSE [out |-> Outcome(Null, <<>>, FALSE), ctx |-> [_focus_path |-> <<p>>]]

\* (mutation of resolve_path) an absolute path is resolved like a relative one
resolve_pathResolvingAbsolute(ctx, path) ==
    LET p == Path(path) IN
    IF is_absolute(p) THEN Returned(resolve(p))
    ELSE IF ctx._focus_path = <<>> THEN
         Raised("ValueError: Cannot resolve relative path without a project focus")
    ELSE Returned(resolve(JoinPath(ctx._focus_path[1], p)))

\* (mutation of resolve_path) the join with the focus is returned as it is
resolve_pathUnresolved(ctx, path) ==
    LET p == Path(path) IN
    IF is_absolute(p) THEN Returned(p)
    ELSE IF ctx._focus_path = <<>> THEN
         Raised("ValueError: Cannot resolve relative path without a project focus")
    ELSE Returned(JoinPath(ctx._focus_path[1], p))

\* ProjectContext.resolve_path
resolve_path(ctx, path) ==
    LET p == Path(path) IN
    IF is_absolute(p) THEN Returned(p)
    ELSE IF ctx._focus_path = <<>> THEN
         Raised("ValueError: Cannot resolve relative path without a project focus")
    ELSE Returned(resolve(JoinPath(ctx._focus_path[1], p)))

\* ProjectContext.is_within_focus
is_within_focus(ctx, path) ==
    IF ctx._focus_path = <<>> THEN FALSE
    ELSE LET out == resolve_path(ctx, path) IN
         IF out.raised # Null THEN FALSE
         ELSE startswith(str(out.path[1]), str(ctx._focus_path[1]))

\* what a call leaves for the properties: the argument, the focus before the
\* call and the outcome
PathCall(op, path, out) ==
    [op |-> op, value |-> [arg |-> path, focus |-> resolver._focus_path,
                           out |-> out]]

\* ProjectContext(focus_path): set_focus unless focus_path is None or ""; an
\* exception leaves no new object
CtxInit(focus_path) ==
    /\ LET made == IF focus_path = <<>>
                   THEN [out |-> Outcome(Null, <<>>, FALSE), ctx |-> NoContext]
                   ELSE set_focus(NoContext, focus_path)
       IN /\ resolver' = IF made.out.raised = Null THEN made.ctx ELSE resolver
          /\ ret' = PathCall("ProjectContext", focus_path, made.out)
    /\ UNCHANGED fs /\ UNCHANGED proc /\ UNCHANGED <<session, registry, writers>>

CtxSetFocus(path) ==
    /\ LET done == set_focus(resolver, path) IN
         /\ resolver' = done.ctx
         /\ ret' = PathCall("set_focus", path, done.out)
    /\ UNCHANGED fs /\ UNCHANGED proc /\ UNCHANGED <<session, registry, writers>>

\* ProjectContext.clear_focus
CtxClearFocus ==
    /\ resolver' = [_focus_path |-> <<>>]
    /\ ret' = PathCall("clear_focus", <<>>, Outcome(Null, <<>>, FALSE))
    /\ UNCHANGED fs /\ UNCHANGED proc /\ UNCHANGED <<session, registry, writers>>

CtxResolvePath(path) ==
    /\ ret' = PathCall("resolve_path", path, resolve_path(resolver, path))
    /\ UNCHANGED fs /\ UNCHANGED proc
    /\ UNCHANGED <<session, registry, writers, resolver>>

CtxIsWithinFocus(path) ==
    /\ ret' = PathCall("is_within_focus", path,
                       Outcome(Null, <<>>, is_within_focus(resolver, path)))
    /\ UNCHANGED fs /\ UNCHANGED proc
    /\ UNCHANGED <<session, registry, writers, resolver>>

NextPaths ==
    \/ \E focus_path \in PathStrings : CtxInit(focus_path)
    \/ \E path \in PathStrings : CtxSetFocus(path)
    \/ CtxClearFocus
    \/ \E path \in PathStrings : CtxResolvePath(path)
    \/ \E path \in PathStrings : CtxIsWithinFocus(path)

SpecPaths == InitSession /\ [][NextPaths]_vars

\* ------------------------------------------------------ the tool registry
\* the classes a module may decorate with @register_tool: two names, two
\* implementations for each, and every way of leaving a metadata field unset
\* (Null: None or the empty string)
ToolClasses ==
    {ToolClass(name, approval_level, description, params_model, impl) :
        name \in {"project_focus", "bash_run", Null},
        approval_level \in {AUTO, EXPLICIT, Null},
        description \in {"Set the current project context", Null},
        params_model \in {"ProjectFocusParams", Null},
        impl \in {"ProjectFocusTool", "OtherTool"}}

\* BaseTool.validate_metadata: the exception raised, Null when none
validate_metadata(cls) ==
    IF cls.name = Null THEN "ValueError: missing 'name' in metadata"
    ELSE IF cls.approval_level = Null THEN "ValueError: missing 'approval_level' in metadata"
    ELSE IF cls.description = Null THEN "ValueError: missing 'description' in metadata"
    ELSE IF cls.params_model = Null THEN "ValueError: missing 'params_model' in metadata"
    ELSE Null

\* name in _tool_registry
IsRegistered(reg, name) == \E i \in 1..Len(reg) : reg[i].name = name

\* (mutation of register_tool) a registered name is registered again: the
\* later class replaces the earlier one
register_toolOverwriting(reg, cls) ==
    IF validate_metadata(cls) # Null
    THEN [raised |-> validate_metadata(cls), registry |-> reg]
    ELSE IF IsRegistered(reg, cls.name)
    THEN [raised |-> Null,
          registry |-> [i \in 1..Len(reg) |->
                           IF reg[i].name = cls.name THEN cls ELSE reg[i]]]
    ELSE [raised |-> Null, registry |-> Append(reg, cls)]

\* register_tool: the exception raised and the registry after the call
register_tool(reg, cls) ==
    IF validate_metadata(cls) # Null
    THEN [raised |-> validate_metadata(cls), registry |-> reg]
    ELSE IF IsRegistered(reg, cls.name)
    THEN [raised |-> "ValueError: Tool is already registered", registry |-> reg]
    ELSE [raised |-> Null, registry |-> Append(reg, cls)]

\* _tool_registry.get(name): <<>> for None
RegistryGet(reg, name) ==
    IF IsRegistered(reg, name)
    THEN <<reg[CHOOSE i \in 1..Len(reg) : reg[i].name = name]>>
    ELSE <<>>

\* ToolMetadata.to_dict
to_dict(cls) ==
    [name |-> cls.name, approval_level |-> cls.approval_level,
     description |-> cls.description, params_schema |-> cls.params_model]

\* list_tools: the descriptors in the order of the dictionary
list_tools(reg) == [i \in 1..Len(reg) |-> to_dict(reg[i])]

\* what a registry call leaves for the properties
RegistryCall(op, cls, name, raised, found, listed) ==
    [op |-> op, value |-> [arg |-> cls, name |-> name, raised |-> raised,
                           found |-> found, listed |-> listed]]

RegisterTool(cls) ==
    /\ LET done == register_tool(registry, cls) IN
         /\ registry' = done.registry
         /\ ret' = RegistryCall("register_tool", cls, cls.name, done.raised,
                                <<>>, <<>>)
    /\ UNCHANGED fs /\ UNCHANGED proc /\ UNCHANGED <<session, writers, resolver>>

GetTool(name) ==
    /\ ret' = RegistryCall("get_tool", ToolClass(Null, Null, Null, Null, Null),
                           name, Null, RegistryGet(registry, name), <<>>)
    /\ UNCHANGED fs /\ UNCHANGED proc
    /\ UNCHANGED <<session, registry, writers, resolver>>

ListTools ==
    /\ ret' = RegistryCall("list_tools", ToolClass(Null, Null, Null, Null, Null),
                           Null, Null, <<>>, list_tools(registry))
    /\ UNCHANGED fs /\ UNCHANGED proc
    /\ UNCHANGED <<session, registry, writers, resolver>>

\* tools/base.py is imported: _tool_registry = {}
InitRegistry ==
    /\ logs = NoLogs
    /\ mtime = [id \in SessionIds |-> 0]
    /\ now = 0
    /\ dirs = AbsDirs
    /\ pc = "idle"
    /\ args = NoArgs
    /\ session = NoSession
    /\ context = Null
    /\ local = NoLocal
    /\ stdout = <<>>
    /\ exit_code = Running
    /\ hist = NoHist
    /\ invocations = 0
    /\ ret = NoRet
    /\ registry = <<>>
    /\ writers = NoWriters
    /\ resolver = NoContext

NextRegistry ==
    \/ \E cls \in ToolClasses : RegisterTool(cls)
    \/ \E name \in {cls.name : cls \in ToolClasses} : GetTool(name)
    \/ ListTools

SpecRegistry == InitRegistry /\ [][NextRegistry]_vars

\* --------------------------------------------------- main, step by step
\* the --tool values the command line is exercised with
ToolArgs == {"project_focus", "service_restart", "service_stop", "no_such_tool"}

Exits(code, out) ==
    /\ pc' = "exited"
    /\ exit_code' = code
    /\ stdout' = out

\* parse_args: argparse ends the process with status 2 and a usage message on
\* standard error when it rejects the command line (SystemExit is not an
\* Exception, so the handler of main does not see it)
ParseArgs(accepted) ==
    /\ pc = "idle"
    /\ invocations < MaxInvocations
    /\ IF accepted
       THEN pc' = "main" /\ UNCHANGED <<exit_code, stdout>>
       ELSE Exits(2, stdout)
    /\ UNCHANGED <<fs, args, session, context, local, hist, invocations, ret>>
    /\ UNCHANGED aux

\* main: args.list_tools
MainListTools ==
    /\ pc = "main"
    /\ Exits(0, Append(stdout, list_response("list_tools")))
    /\ UNCHANGED <<fs, args, session, context, local, hist, invocations, ret>>
    /\ UNCHANGED aux

\* (mutation of MainListSessions) listing continues the most recent session
MainListSessionsContinuing(order) ==
    /\ pc = "main"
    /\ ret' = [op |-> "list_sessions", value |-> list_sessions(FALSE, order)]
    /\ Exits(0, Append(stdout, list_response("list_sessions")))
    /\ IF FirstNotExpired(order) # Null
       THEN LET w == continue_last_session(FirstNotExpired(order)) IN
            Written(w) /\ session' = w.session
       ELSE UNCHANGED <<logs, mtime, session>>
    /\ UNCHANGED <<now, dirs, args, context, local, hist, invocations>>
    /\ UNCHANGED aux

\* main: args.list_sessions
MainListSessions(order) ==
    /\ pc = "main"
    /\ ret' = [op |-> "list_sessions", value |-> list_sessions(FALSE, order)]
    /\ Exits(0, Append(stdout, list_response("list_sessions")))
    /\ UNCHANGED <<fs, args, session, context, local, hist, invocations>>
    /\ UNCHANGED aux

\* main: neither list flag; --tool is read (Null: not given)
MainTool(tool) ==
    /\ pc = "main"
    /\ IF tool = Null
       THEN /\ Exits(1, Append(stdout,
                   create_error_response("MissingArgument",
                       {<<"--tool", "is required">>}, "agent", "none")))
            /\ UNCHANGED args
       ELSE /\ pc' = "params"
            /\ args' = [args EXCEPT !.tool = tool]
            /\ UNCHANGED <<exit_code, stdout>>
    /\ UNCHANGED <<fs, session, context, local, hist, invocations, ret>>
    /\ UNCHANGED aux

\* (mutation of MainParams) the session is resolved before --params is parsed
MainParamsSessionFirst(is_json, raw) ==
    /\ pc = "params"
    /\ IF ~is_json
       THEN /\ Exits(1, Append(stdout,
                   create_error_response("InvalidJSON",
                       {<<"--params", "Invalid JSON">>}, args.tool, "none")))
            /\ LET w == create_session("sess_b") IN
                 Written(w) /\ session' = w.session
            /\ UNCHANGED args
       ELSE /\ pc' = "session"
            /\ args' = [args EXCEPT !.params = raw]
            /\ UNCHANGED <<exit_code, stdout, logs, mtime, session>>
    /\ UNCHANGED <<now, dirs, context, local, hist, invocations, ret>>
    /\ UNCHANGED aux

\* main: json.loads(args.params)
MainParams(is_json, raw) ==
    /\ pc = "params"
    /\ IF ~is_json
       THEN /\ Exits(1, Append(stdout,
                   create_error_response("InvalidJSON",
                       {<<"--params", "Invalid JSON">>}, args.tool, "none")))
            /\ UNCHANGED args
       ELSE /\ pc' = "session"
            /\ args' = [args EXCEPT !.params = raw]
            /\ UNCHANGED <<exit_code, stdout>>
    /\ UNCHANGED <<fs, session, context, local, hist, invocations, ret>>
    /\ UNCHANGED aux

\* main: session_manager.get_or_create_session(args.resume, args.continue_session)
MainSession(resume_id, continue_last, order, new_id) ==
    /\ pc = "session"
    /\ LET w == get_or_create_session(resume_id, continue_last, order, new_id) IN
         Written(w) /\ session' = w.session
    /\ pc' = "execute_tool"
    /\ UNCHANGED <<now, dirs, args, context, local, stdout, exit_code, hist,
                   invocations, ret>>
    /\ UNCHANGED aux

\* ProjectContext.set_focus accepts the path
SetFocusOk(path) == IsAbsolute(path) /\ path \in dirs

\* execute_tool up to the call of run: ProjectContext(session.project_focus),
\* tools.create_tool, and the first statement of run (context_info)
ExecuteTool(auto_approve) ==
    /\ pc = "execute_tool"
    /\ LET focus == project_focus(session) IN
       IF focus # Null /\ ~SetFocusOk(focus)
       THEN \* set_focus raises ValueError, which reaches the handler of main
            /\ pc' = "fault"
            /\ local' = [local EXCEPT !.error =
                   [type |-> "ValueError",
                    message |-> {<<focus, "Project path does not exist">>}]]
            /\ UNCHANGED <<args, context, hist, exit_code, stdout>>
       ELSE IF get_tool(args.tool) = Null
       THEN /\ Exits(0, Append(stdout,
                   create_error_response("ToolNotFound",
                       {<<args.tool, "Unknown tool">>}, args.tool,
                       session.session_id)))
            /\ context' = focus
            /\ UNCHANGED <<args, local, hist>>
       ELSE /\ pc' = "Validating"
            /\ context' = focus
            /\ args' = [args EXCEPT !.auto_approve = auto_approve]
            /\ local' = [local EXCEPT !.context_info =
                            ContextInfo(focus, session.session_id)]
            /\ hist' = [entries0 |-> Len(session._entries),
                        records0 |-> Len(logs[session.session_id]),
                        executed |-> 0, phases |-> <<"Validating">>]
            /\ UNCHANGED <<exit_code, stdout>>
    /\ UNCHANGED <<fs, session, invocations, ret>>
    /\ UNCHANGED aux

\* --------------------------------------------------- BaseTool.run, by step
Level == ToolRegistry[args.tool]

Phase(name) == [hist EXCEPT !.phases = Append(@, name)]

\* (mutation of Denied) CONFIRM is enforced as a hard gate too
DeniedConfirmToo(auto_approve, approval_level) ==
    ~auto_approve /\ approval_level \in {CONFIRM, EXPLICIT}

\* the approval check of run: the call is denied
Denied(auto_approve, approval_level) ==
    ~auto_approve /\ approval_level = EXPLICIT

\* (mutation of RunValidate) a validation failure returns without being logged
RunValidateUnlogged ==
    /\ pc = "Validating"
    /\ IF validate_params(args.tool, args.params)
       THEN /\ pc' = "Gating"
            /\ local' = [local EXCEPT !.dry_run = ParamsDryRun(args.params)]
            /\ hist' = Phase("Gating")
       ELSE /\ pc' = "Responding"
            /\ local' = [local EXCEPT
                   !.error = [type |-> "ValidationError",
                              message |-> ValidationErrors(args.tool, args.params)],
                   !.response =
                       error_response(session.session_id, args.tool, Level,
                           "ValidationError",
                           ValidationErrors(args.tool, args.params),
                           local.context_info)]
            /\ hist' = Phase("Responding(Error)")
    /\ UNCHANGED <<fs, args, session, context, stdout, exit_code, invocations, ret>>
    /\ UNCHANGED aux

\* run: params = self.validate_params(raw_params); a ValidationError goes to
\* the except branch
RunValidate ==
    /\ pc = "Validating"
    /\ IF validate_params(args.tool, args.params)
       THEN /\ pc' = "Gating"
            /\ local' = [local EXCEPT !.dry_run = ParamsDryRun(args.params)]
            /\ hist' = Phase("Gating")
       ELSE /\ pc' = "Logging"
            /\ local' = [local EXCEPT !.error =
                   [type |-> "ValidationError",
                    message |-> ValidationErrors(args.tool, args.params)]]
            /\ hist' = Phase("Logging")
    /\ UNCHANGED <<fs, args, session, context, stdout, exit_code, invocations, ret>>
    /\ UNCHANGED aux

\* (mutation of RunGate) a denial is written to the session log
RunGateLogged ==
    /\ pc = "Gating"
    /\ IF Denied(args.auto_approve, Level)
       THEN /\ pc' = "Responding"
            /\ LET w == log_tool_call(session, args.tool, args.params, NoResult,
                            [type |-> "ApprovalRequired",
                             message |-> {<<args.tool, "requires explicit approval">>}])
               IN Written(w) /\ session' = w.session
            /\ local' = [local EXCEPT !.response =
                   error_response(session.session_id, args.tool, Level,
                       "ApprovalRequired",
                       {<<args.tool, "requires explicit approval">>},
                       local.context_info)]
            /\ hist' = Phase("Responding(Error)")
       ELSE /\ pc' = "DryRunCheck"
            /\ UNCHANGED <<local, hist, logs, mtime, session>>
    /\ UNCHANGED <<now, dirs, args, context, stdout, exit_code, invocations, ret>>
    /\ UNCHANGED aux

\* run: the approval check
RunGate ==
    /\ pc = "Gating"
    /\ IF Denied(args.auto_approve, Level)
       THEN /\ pc' = "Responding"
            /\ local' = [local EXCEPT !.response =
                   error_response(session.session_id, args.tool, Level,
                       "ApprovalRequired",
                       {<<args.tool, "requires explicit approval">>},
                       local.context_info)]
            /\ hist' = Phase("Responding(Error)")
       ELSE /\ pc' = "DryRunCheck"
            /\ UNCHANGED <<local, hist>>
    /\ UNCHANGED <<fs, args, session, context, stdout, exit_code, invocations, ret>>
    /\ UNCHANGED aux

\* the synthetic result of a preview
DryRunResult(tool, raw, approval_level) ==
    [kind |-> "dry_run", would_execute |-> tool, params |-> raw,
     approval_level |-> approval_level]

\* run: if params.dry_run
RunDryRun ==
    /\ pc = "DryRunCheck"
    /\ IF local.dry_run
       THEN /\ pc' = "Responding"
            /\ local' = [local EXCEPT !.response =
                   success_response(session.session_id, args.tool, Level,
                       DryRunResult(args.tool, args.params, Level),
                       local.context_info, TRUE)]
            /\ hist' = [hist EXCEPT !.phases =
                          @ \o <<"DryRunPreview", "Responding(Success)">>]
       ELSE /\ pc' = "Executing"
            /\ hist' = Phase("Executing")
            /\ UNCHANGED local
    /\ UNCHANGED <<fs, args, session, context, stdout, exit_code, invocations, ret>>
    /\ UNCHANGED aux

DataResult == [NoResult EXCEPT !.kind = "data"]

Executed(result, error) ==
    /\ pc' = "Logging"
    /\ local' = [local EXCEPT !.result = result, !.error = error]
    /\ hist' = [Phase("Logging") EXCEPT !.executed = @ + 1]

\* run: result = self.execute(params), for ProjectFocusTool.  set_focus may
\* raise; after log_context_change, get_project_info walks the directory and
\* `fault` says whether the walk raised.
ExecuteProjectFocus(fault) ==
    LET path == args.params.path IN
    IF ~SetFocusOk(path)
    THEN /\ Executed(NoResult,
                [type |-> "ValueError",
                 message |-> {<<path, "Project path does not exist">>}])
         /\ UNCHANGED <<logs, mtime, session, context>>
    ELSE /\ context' = path
         /\ LET w == log_context_change(session, path) IN
              Written(w) /\ session' = w.session
         /\ IF fault
            THEN Executed(NoResult,
                    [type |-> "PermissionError",
                     message |-> {<<path, "Permission denied">>}])
            ELSE Executed(DataResult, NoError)

\* run: result = self.execute(params), for the service control tools:
\* `fault` says whether no manager knows the service
ExecuteService(fault) ==
    /\ IF fault
       THEN Executed(NoResult,
               [type |-> "ValueError",
                message |-> {<<args.params.name, "Could not find service">>}])
       ELSE Executed(DataResult, NoError)
    /\ UNCHANGED <<logs, mtime, session, context>>

\* run: result = self.execute(params), for BashRunTool: `fault` says whether
\* the command blocks past params.timeout.  execute catches TimeoutExpired
\* itself and returns its dictionary with timed_out set
ExecuteBash(fault) ==
    /\ Executed([DataResult EXCEPT !.timed_out = fault], NoError)
    /\ UNCHANGED <<logs, mtime, session, context>>

RunExecute(fault) ==
    /\ pc = "Executing"
    /\ IF args.tool = "project_focus"
       THEN ExecuteProjectFocus(fault)
       ELSE IF args.tool = "bash_run"
       THEN ExecuteBash(fault)
       ELSE ExecuteService(fault)
    /\ UNCHANGED <<now, dirs, args, stdout, exit_code, invocations, ret>>
    /\ UNCHANGED aux

\* run: self.session.log_tool_call(...) and the return that follows it, on the
\* success path (lines 160-172) and in the except branch (lines 176-193)
RunLog ==
    /\ pc = "Logging"
    /\ LET w == log_tool_call(session, args.tool, args.params,
                              local.result, local.error) IN
         Written(w) /\ session' = w.session
    /\ pc' = "Responding"
    /\ IF local.error.type = Null
       THEN /\ local' = [local EXCEPT !.response =
                   success_response(session.session_id, args.tool, Level,
                       local.result, local.context_info, FALSE)]
            /\ hist' = Phase("Responding(Success)")
       ELSE /\ local' = [local EXCEPT !.response =
                   error_response(session.session_id, args.tool, Level,
                       local.error.type, local.error.message,
                       local.context_info)]
            /\ hist' = Phase("Responding(Error)")
    /\ UNCHANGED <<now, dirs, args, context, stdout, exit_code, invocations, ret>>
    /\ UNCHANGED aux

\* execute_tool after run returned (lines 103-107), then print and return 0
Respond ==
    /\ pc = "Responding"
    /\ Exits(0, Append(stdout,
            [local.response EXCEPT
                !.context = ContextInfo(context, session.session_id)]))
    /\ UNCHANGED <<fs, args, session, context, local, hist, invocations, ret>>
    /\ UNCHANGED aux

\* main: except Exception
MainFault ==
    /\ pc = "fault"
    /\ Exits(1, Append(stdout,
            create_error_response(local.error.type, local.error.message,
                                  "agent", "none")))
    /\ UNCHANGED <<fs, args, session, context, local, hist, invocations, ret>>
    /\ UNCHANGED aux

\* the process is gone; the next invocation starts from scratch
ProcessExit ==
    /\ pc = "exited"
    /\ pc' = "idle"
    /\ args' = NoArgs
    /\ session' = NoSession
    /\ context' = Null
    /\ local' = NoLocal
    /\ stdout' = <<>>
    /\ exit_code' = Running
    /\ hist' = NoHist
    /\ ret' = NoRet
    /\ invocations' = invocations + 1
    /\ UNCHANGED fs
    /\ UNCHANGED aux

Next ==
    \/ \E accepted \in BOOLEAN : ParseArgs(accepted)
    \/ MainListTools
    \/ \E order \in SortedSessionFiles : MainListSessions(order)
    \/ \E tool \in ToolArgs \cup {Null} : MainTool(tool)
    \/ \E is_json \in BOOLEAN, raw \in RawParams : MainParams(is_json, raw)
    \/ \E resume_id \in SessionIds \cup {Null}, continue_last \in BOOLEAN,
          order \in SortedSessionFiles, new_id \in generate_session_id :
            MainSession(resume_id, continue_last, order, new_id)
    \/ \E auto_approve \in BOOLEAN : ExecuteTool(auto_approve)
    \/ RunValidate
    \/ RunGate
    \/ RunDryRun
    \/ \E fault \in BOOLEAN : RunExecute(fault)
    \/ RunLog
    \/ Respond
    \/ MainFault
    \/ ProcessExit
    \/ \E d \in AbsDirs : EnvRmdir(d)
    \/ \E d \in AbsDirs : EnvMkdir(d)

Spec == Init /\ [][Next]_vars

\* ------------------------------------------------ invocations of bash_run
\* the --params maps bash_run is invoked with
BashParams ==
    {NoParams,
     [NoParams EXCEPT !.command = "sleep 5"],
     [NoParams EXCEPT !.command = "sleep 5", !.timeout = "1"],
     [NoParams EXCEPT !.command = "sleep 5", !.timeout = "0"],
     [NoParams EXCEPT !.command = "sleep 5", !.dry_run = "true"],
     [NoParams EXCEPT !.command = "7"]}

NextBash ==
    \/ ParseArgs(TRUE)
    \/ MainTool("bash_run")
    \/ \E raw \in BashParams : MainParams(TRUE, raw)
    \/ \E resume_id \in SessionIds \cup {Null}, continue_last \in BOOLEAN,
          order \in SortedSessionFiles, new_id \in generate_session_id :
            MainSession(resume_id, continue_last, order, new_id)
    \/ \E auto_approve \in BOOLEAN : ExecuteTool(auto_approve)
    \/ RunValidate
    \/ RunGate
    \/ RunDryRun
    \/ \E fault \in BOOLEAN : RunExecute(fault)
    \/ RunLog
    \/ Respond
    \/ ProcessExit

SpecBash == Init /\ [][NextBash]_vars

\* -------------------------------------- invocations on a failing storage
\* open() or write() of Session.append raises
StorageError == [type |-> "OSError", message |-> {<<"sessions", "storage unavailable">>}]

\* Session.append when the file cannot be written: the entry is on _entries
\* already when open() raises, the file is as it was
appendFailing(sess, entry) ==
    [_load(sess, logs[sess.session_id]) EXCEPT !._entries = Append(@, entry)]

\* main: get_or_create_session raises from the append of the lifecycle entry;
\* the exception reaches the handler of main and `session` is never bound
MainSessionFails ==
    /\ pc = "session"
    /\ pc' = "fault"
    /\ local' = [local EXCEPT !.error = StorageError]
    /\ hist' = Phase("AppendFailed")
    /\ UNCHANGED <<fs, args, session, context, stdout, exit_code, invocations, ret>>
    /\ UNCHANGED aux

\* run: session.log_tool_call raises.  On the success path the call is inside
\* the try block, so the except branch takes over and logs the OSError; in the
\* except branch nothing catches it and it leaves run and execute_tool
RunLogFails ==
    /\ pc = "Logging"
    /\ session' = appendFailing(session,
                      SessionEntry("tool_call", args.tool, args.params,
                                   local.result, local.error,
                                   <<session._project_focus>>))
    /\ IF local.error.type = Null
       THEN /\ pc' = "Logging"
            /\ local' = [local EXCEPT !.result = NoResult, !.error = StorageError]
       ELSE /\ pc' = "fault"
            /\ local' = [local EXCEPT !.error = StorageError]
    /\ hist' = Phase("AppendFailed")
    /\ UNCHANGED <<fs, args, context, stdout, exit_code, invocations, ret>>
    /\ UNCHANGED aux

NextStorage ==
    \/ ParseArgs(TRUE)
    \/ \E tool \in {"project_focus", "service_restart"} : MainTool(tool)
    \/ \E raw \in RawParams : MainParams(TRUE, raw)
    \/ \E resume_id \in SessionIds \cup {Null}, continue_last \in BOOLEAN,
          order \in SortedSessionFiles, new_id \in generate_session_id :
            MainSession(resume_id, continue_last, order, new_id)
    \/ MainSessionFails
    \/ \E auto_approve \in BOOLEAN : ExecuteTool(auto_approve)
    \/ RunValidate
    \/ RunGate
    \/ RunDryRun
    \/ \E fault \in BOOLEAN : RunExecute(fault)
    \/ RunLog
    \/ RunLogFails
    \/ Respond
    \/ MainFault
    \/ ProcessExit

SpecStorage == Init /\ [][NextStorage]_vars

\* ================================================================ properties
\* run has returned: local.response is the ToolResponse it returned
RunReturned == pc = "Responding"

\* the records run has appended to the log file and to the in-memory list
NewRecords ==
    SubSeq(logs[session.session_id], hist.records0 + 1,
           Len(logs[session.session_id]))
NewEntries == SubSeq(session._entries, hist.entries0 + 1, Len(session._entries))

ToolCalls(seq) == SelectSeq(seq, LAMBDA e : e.type = "tool_call")

IsDenial(r) == ~r.success /\ r.error.type = "ApprovalRequired"

\* C1: run denies the call (ApprovalRequired envelope) if and only if the tier
\* is EXPLICIT, force-approve is false and the parameters validated; an
\* EXPLICIT tool without force-approve never reaches execute; AUTO and CONFIRM
\* tools are never denied.
C1_DeniedIffExplicitUnapproved ==
    /\ RunReturned =>
         /\ IsDenial(local.response) <=>
              (/\ ToolRegistry[args.tool] = EXPLICIT
               /\ ~args.auto_approve
               /\ ValidationErrors(args.tool, args.params) = {})
         /\ ToolRegistry[args.tool] \in {AUTO, CONFIRM} => ~IsDenial(local.response)
    /\ (args.tool \in Registered /\ ToolRegistry[args.tool] = EXPLICIT
          /\ pc \in {"Executing", "Logging", "Responding", "exited"}
          /\ ~args.auto_approve)
         => hist.executed = 0

C1_Witness ==
    /\ RunReturned
    /\ IsDenial(local.response)
    /\ args.tool = "service_stop"
    /\ hist.executed = 0

\* C2: a freshly constructed Session reports the focus of the last
\* context_change record of its log (Null when there is none), whatever
\* tool_call and lifecycle records lie between or after them.
LastContextChange(file) ==
    LET cc == {i \in 1..Len(file) : file[i].type = "context_change"} IN
    IF cc = {} THEN Null
    ELSE file[CHOOSE i \in cc : \A j \in cc : j <= i].context[1]

C2_ReplayIsLastWrite ==
    \A id \in SessionIds :
        project_focus(NewSession(id)) = LastContextChange(logs[id])

C2_Witness ==
    \E id \in SessionIds :
        /\ Len(logs[id]) = 3
        /\ logs[id][1].type = "context_change"
        /\ logs[id][2].type = "context_change"
        /\ logs[id][1].context # logs[id][2].context
        /\ logs[id][3].type = "tool_call"
        /\ logs[id][3].context # logs[id][2].context
        /\ project_focus(NewSession(id)) = logs[id][2].context[1]

\* C3: every Session and SessionManager operation leaves each log a
\* prefix-extension of what it was: no earlier record is rewritten, reordered
\* or removed.
IsPrefix(a, b) == Len(a) <= Len(b) /\ SubSeq(b, 1, Len(a)) = a

C3_AppendOnly ==
    [][\A id \in SessionIds : IsPrefix(logs[id], logs'[id])]_vars

C3_Witness ==
    \E id \in SessionIds :
        /\ Len(logs[id]) = 3
        /\ logs[id][1].type = "session_start"
        /\ logs[id][2].type \in {"session_resume", "session_continue"}
        /\ logs[id][3].type \in {"context_change", "tool_call"}

\* the call was made on an EXPLICIT tool without force-approve
UnapprovedExplicit ==
    ToolRegistry[args.tool] = EXPLICIT /\ ~args.auto_approve

NoTrace ==
    /\ Len(session._entries) = hist.entries0
    /\ Len(logs[session.session_id]) = hist.records0

\* C4 (as stated): an EXPLICIT tool called without force-approve, for any raw
\* parameters, valid or invalid, returns ApprovalRequired and the session's
\* entry count is unchanged.
C4_DenialForAnyParams ==
    (RunReturned /\ UnapprovedExplicit)
        => (IsDenial(local.response) /\ NoTrace)

\* C4 (amended): an EXPLICIT tool called without force-approve with parameters
\* that pass validation, dry_run set or not, returns ApprovalRequired and the
\* session's entry count is unchanged.
C4_DenialLeavesNoTrace ==
    (RunReturned /\ UnapprovedExplicit
       /\ ValidationErrors(args.tool, args.params) = {})
        => (IsDenial(local.response) /\ NoTrace /\ hist.executed = 0)

C4_Witness ==
    /\ RunReturned /\ UnapprovedExplicit
    /\ args.params.dry_run = "true"
    /\ IsDenial(local.response)
    /\ NoTrace

IsPreview(r) ==
    /\ r.success /\ r.dry_run
    /\ r.result.would_execute = args.tool
    /\ r.result.approval_level = ToolRegistry[args.tool]

\* C5 (as stated): any operation, any tier, any force-approve value, called
\* with dry_run true returns a successful dry-run envelope naming the operation
\* and tier, does not execute and leaves the entry count unchanged.
C5_DryRunForAnyCall ==
    (RunReturned /\ args.params.dry_run = "true")
        => (IsPreview(local.response) /\ hist.executed = 0 /\ NoTrace)

\* C5 (amended): an operation called with dry_run true and parameters that
\* validate, and whose tier is not EXPLICIT or which is force-approved,
\* returns a successful dry-run envelope naming the operation and tier, does
\* not execute and leaves the entry count unchanged.
C5_DryRunLeavesNoTrace ==
    (RunReturned /\ args.params.dry_run = "true"
       /\ ValidationErrors(args.tool, args.params) = {}
       /\ ~UnapprovedExplicit)
        => (IsPreview(local.response) /\ hist.executed = 0 /\ NoTrace)

C5_Witness ==
    /\ RunReturned
    /\ args.params.dry_run = "true"
    /\ ToolRegistry[args.tool] = EXPLICIT /\ args.auto_approve
    /\ IsPreview(local.response)
    /\ NoTrace

\* C6: a call to run that is neither denied nor previewed appends exactly one
\* tool_call record, carrying the operation name and the raw parameters; a
\* denied or previewed call appends none.
C6_RealAttemptLoggedOnce ==
    RunReturned =>
        LET onDisk == ToolCalls(NewRecords)
            inMemory == ToolCalls(NewEntries)
        IN IF IsDenial(local.response) \/ local.response.dry_run
           THEN onDisk = <<>> /\ inMemory = <<>>
           ELSE /\ Len(onDisk) = 1
                /\ inMemory = onDisk
                /\ onDisk[1].tool = args.tool
                /\ onDisk[1].params = args.params

C6_Witness ==
    /\ RunReturned
    /\ args.tool = "service_stop" /\ args.auto_approve
    /\ hist.executed = 1
    /\ local.response.success /\ ~local.response.dry_run
    /\ Len(ToolCalls(NewRecords)) = 1

\* the raw map breaks the schema of the tool: an unrecognized key, a missing
\* required key, a value of the wrong type, or a path the validator rejects
BreaksSchema(tool, raw) ==
    LET allowed == IF tool = "project_focus" THEN {"path", "dry_run"}
                   ELSE {"name", "manager", "dry_run"}
        needed == IF tool = "project_focus" THEN "path" ELSE "name"
    IN \/ \E f \in DOMAIN raw : raw[f] # Absent /\ f \notin allowed
       \/ raw[needed] = Absent
       \/ raw[needed] \in {"1", "7", "true", "false"}
       \/ raw.dry_run \notin {Absent, "true", "false"}
       \/ tool = "project_focus" /\ raw.path \notin AbsDirs

\* C7: when the raw parameters break the schema, run never executes, appends
\* one tool_call record whose error is the ValidationError (kind and message)
\* and whose result is null, and returns an error envelope with that kind and
\* message.
C7_ValidationFailureLogged ==
    (RunReturned /\ BreaksSchema(args.tool, args.params)) =>
        /\ hist.executed = 0
        /\ Len(NewRecords) = 1
        /\ NewRecords[1].type = "tool_call"
        /\ NewRecords[1].error.type = "ValidationError"
        /\ NewRecords[1].error.message # {}
        /\ NewRecords[1].result = NoResult
        /\ ~local.response.success
        /\ local.response.result = NoResult
        /\ local.response.error.type = NewRecords[1].error.type
        /\ local.response.error.message = NewRecords[1].error.message

C7_Witness ==
    /\ RunReturned
    /\ args.params.bogus # Absent
    /\ args.params.name = "nginx"
    /\ hist.executed = 0
    /\ local.response.error.type = "ValidationError"
    /\ Len(NewRecords) = 1

\* execute was invoked and raised
ExecuteRaised == hist.executed = 1 /\ local.error.type # Null

\* C8: a condition raised by execute is caught inside run: the envelope and
\* the appended tool_call record carry its class name and text, nothing
\* reaches the handler of main, and the exit code is 0.
C8_ExecuteErrorsCaught ==
    /\ (RunReturned /\ ExecuteRaised) =>
         /\ ~local.response.success
         /\ local.response.error.type = local.error.type
         /\ local.response.error.message = local.error.message
         /\ local.error.type \in {"ValueError", "PermissionError"}
         /\ NewRecords # <<>>
         /\ NewRecords[Len(NewRecords)].type = "tool_call"
         /\ NewRecords[Len(NewRecords)].error = local.error
    /\ hist.executed > 0 => pc # "fault"
    /\ (pc = "exited" /\ ExecuteRaised) =>
         /\ exit_code = 0
         /\ Len(stdout) = 1
         /\ stdout[1].error.type = local.error.type
         /\ stdout[1].error.message = local.error.message

C8_Witness ==
    /\ pc = "exited"
    /\ ExecuteRaised
    /\ args.tool = "project_focus"
    /\ local.error.type = "PermissionError"
    /\ exit_code = 0

\* the state sequences a call of run may go through
AllowedPhases ==
    {<<"Validating", "Logging", "Responding(Error)">>,
     <<"Validating", "Gating", "Responding(Error)">>,
     <<"Validating", "Gating", "DryRunPreview", "Responding(Success)">>,
     <<"Validating", "Gating", "Executing", "Logging", "Responding(Success)">>,
     <<"Validating", "Gating", "Executing", "Logging", "Responding(Error)">>}

RunPositions == {"Validating", "Gating", "DryRunCheck", "Executing", "Logging"}

RunOrderStep ==
    /\ (pc' = "Gating" /\ pc # "Gating") =>
         pc = "Validating" /\ ~BreaksSchema(args.tool, args.params)
    /\ (pc' = "DryRunCheck" /\ pc # "DryRunCheck") =>
         pc = "Gating" /\ ~UnapprovedExplicit
    /\ (pc' = "Executing" /\ pc # "Executing") =>
         pc = "DryRunCheck" /\ args.params.dry_run # "true"
    /\ (pc' = "Logging" /\ pc # "Logging") => pc \in {"Validating", "Executing"}
    /\ (pc' = "Responding" /\ pc # "Responding") =>
         /\ pc \in {"Gating", "DryRunCheck", "Logging"}
         /\ pc = "Logging" =>
              /\ logs'[session.session_id] # logs[session.session_id]
              /\ logs'[session.session_id][Len(logs'[session.session_id])].type
                    = "tool_call"

RunOrderState ==
    /\ RunReturned =>
         /\ hist.phases \in AllowedPhases
         /\ local.response.success <=>
              hist.phases[Len(hist.phases)] = "Responding(Success)"
    /\ pc \in RunPositions =>
         ENABLED (RunValidate \/ RunGate \/ RunDryRun \/ RunLog
                  \/ \E fault \in BOOLEAN : RunExecute(fault))

\* C9: a call of run goes through Validating, Gating, then DryRunPreview or
\* Executing, then Logging, then Responding: the gate is evaluated only after
\* validation succeeded, the dry-run check only after the gate passed, execute
\* only after the dry-run check, the tool_call record is appended before the
\* envelope is returned, the call can always proceed, and it ends in exactly
\* one of Responding(Success) and Responding(Error).
C9_RunOrder == [][RunOrderStep]_vars /\ []RunOrderState

C9_Witness ==
    /\ RunReturned
    /\ hist.phases =
         <<"Validating", "Gating", "Executing", "Logging", "Responding(Error)">>

\* C10: every invocation of main, on every path, including a command line the
\* argument parser rejects, has written exactly one envelope to standard
\* output when the process exits.
C10_OneEnvelopeOnEveryPath ==
    pc = "exited" => Len(stdout) = 1

\* the envelopes the invocation has written to standard output
Emitted == {stdout[i] : i \in 1..Len(stdout)}

\* C11: in every envelope emitted, success implies error null and result
\* populated, failure implies result null and error populated.
C11_ResultXorError ==
    \A r \in Emitted \cup (IF RunReturned THEN {local.response} ELSE {}) :
        /\ r.success => (r.error = NoErrorDetail /\ r.result.kind # Null)
        /\ ~r.success => (r.result = NoResult /\ r.error.type # Null)

C11_Witness ==
    /\ pc = "exited"
    /\ Len(stdout) = 1
    /\ stdout[1].success /\ stdout[1].dry_run
    /\ stdout[1].result.kind = "dry_run"
    /\ stdout[1].error = NoErrorDetail

\* C12: the approval_level of every envelope emitted, on success and on every
\* error path, is one of "auto", "confirm", "explicit".
C12_ApprovalLevelIsATier ==
    \A r \in Emitted : r.approval_level \in {AUTO, CONFIRM, EXPLICIT}

\* the kinds of the two usage errors of main
UsageErrors == {"MissingArgument", "InvalidJSON"}

\* C13: the exit code is 0 for every invocation that ends with an envelope of
\* the engine, 1 exactly for a missing --tool, malformed --params or a fault
\* that reached the handler of main, and no other exit code is produced.
C13_ExitCodes ==
    pc = "exited" =>
        /\ exit_code \in {0, 1}
        /\ Len(stdout) = 1
        /\ exit_code = 1 <=>
             \/ stdout[1].error.type \in UsageErrors
             \/ (stdout[1].tool = "agent" /\ stdout[1].error.type = local.error.type
                   /\ local.error.type # Null)

\* the invocation ended in a usage error
UsageExit ==
    /\ pc = "exited"
    /\ Len(stdout) = 1
    /\ stdout[1].error.type \in UsageErrors

BeforeSession == {"idle", "main", "params"}

\* a step of main before the session is resolved
UsageStep ==
    pc \in BeforeSession =>
        /\ logs' = logs /\ mtime' = mtime
        /\ pc' \in BeforeSession \cup {"exited"} => session' = NoSession
        /\ UsageExit' => pc \in {"main", "params"}

\* C14: when --tool is missing or --params is not valid JSON, the invocation
\* ends with exit code 1 without a session having been resolved or created:
\* no step of main up to the usage error touches a log file, and the
\* invocation has no Session object.
C14_UsageErrorsBeforeSession ==
    /\ [][UsageStep]_vars
    /\ [](UsageExit => (session = NoSession /\ exit_code = 1 /\ hist = NoHist))

C14_Witness ==
    /\ UsageExit
    /\ stdout[1].error.type = "InvalidJSON"
    /\ logs["sess_a"] = FocusedLog
    /\ session = NoSession
    /\ exit_code = 1

\* the invocation ended in one of the two listings
ListExit ==
    /\ pc = "exited"
    /\ Len(stdout) = 1
    /\ stdout[1].success
    /\ stdout[1].tool \in {"list_tools", "list_sessions"}

\* the step that prints a listing
ListStep ==
    (ListExit' /\ pc # "exited") =>
        /\ pc = "main"
        /\ logs' = logs /\ mtime' = mtime
        /\ session' = NoSession

\* C15: --list-tools and --list-sessions execute no tool, resolve no session
\* and leave every session log as it was.
C15_ListingsBypassExecution ==
    /\ [][ListStep]_vars
    /\ [](ListExit =>
            /\ session = NoSession /\ hist.executed = 0 /\ hist = NoHist
            /\ args = NoArgs /\ exit_code = 0)

C15_Witness ==
    /\ ListExit
    /\ stdout[1].tool = "list_sessions"
    /\ ret.op = "list_sessions"
    /\ Len(ret.value) = 1
    /\ ret.value[1].project_focus = "/p"
    /\ logs["sess_a"] = FocusedLog

\* C16: an invocation naming an unregistered operation, once its session is
\* resolved, ends with a ToolNotFound envelope and exit code 0, whatever the
\* parameters and force-approve, and appends no tool_call record.
C16_UnknownToolIsToolNotFound ==
    (pc = "exited" /\ session.session_id # Null /\ args.tool \notin Registered) =>
        /\ exit_code = 0
        /\ Len(stdout) = 1
        /\ stdout[1].error.type = "ToolNotFound"
        /\ hist.executed = 0
        /\ \A id \in SessionIds :
             \A i \in 1..Len(logs[id]) :
                logs[id][i].type = "tool_call" => logs[id][i].tool \in Registered

\* ------------------------------------------- session resolution and expiry
\* the step is a call of get_or_create_session (every call appends a record)
ResolveStep == ret'.op = "get_or_create_session" /\ logs' # logs

\* the session logs that exist and are not expired
Live == {id \in SessionIds : FileExists(id) /\ now - mtime[id] <= TTL}

\* the call returned the session `id` after appending one record of the kind
\* to its log, and touched no other log
ResolvedBy(id, kind) ==
    /\ session'.session_id = id
    /\ logs'[id] = Append(logs[id], LifecycleEntry(kind))
    /\ \A o \in SessionIds \ {id} : logs'[o] = logs[o]
    /\ session'._entries = logs'[id]

ResolvedKind == logs'[session'.session_id][Len(logs'[session'.session_id])].type

PriorityStep ==
    ResolveStep =>
        LET resume_id == ret'.value[1]
            continue_last == ret'.value[2]
        IN /\ resume_id \in Live => ResolvedBy(resume_id, "session_resume")
           /\ ResolvedKind = "session_continue" =>
                 (resume_id \notin Live /\ continue_last)
           /\ ResolvedKind = "session_start" =>
                 (resume_id \notin Live /\ ~(continue_last /\ Live # {}))

\* C17: a resume id whose log exists and is not expired is the session
\* returned, whether or not continue-last is set and whatever the modification
\* times of the other logs; continue-most-recent happens only when no resume
\* id succeeded and a session is created only when neither succeeded.
C17_ResumeHasPriority == [][PriorityStep]_vars

C17_Witness ==
    /\ ret.op = "get_or_create_session"
    /\ ret.value = <<"sess_a", TRUE>>
    /\ session.session_id = "sess_a"
    /\ Len(logs["sess_a"]) = 2
    /\ logs["sess_a"][2].type = "session_resume"
    /\ logs["sess_b"] # <<>>
    /\ mtime["sess_b"] = 1
    /\ mtime["sess_a"] = TTL

\* the resume id of the call names a log that is absent or expired
FailedResume == ResolveStep /\ ret'.value[1] # Null /\ ret'.value[1] \notin Live

FailoverAlwaysCreates ==
    FailedResume =>
        /\ \E id \in SessionIds : ResolvedBy(id, "session_start")
        /\ FileExists(ret'.value[1]) => logs'[ret'.value[1]] = logs[ret'.value[1]]

FailoverStep ==
    FailedResume =>
        LET resume_id == ret'.value[1]
            continue_last == ret'.value[2]
        IN /\ IF continue_last /\ Live # {}
              THEN \E id \in Live : ResolvedBy(id, "session_continue")
              ELSE \E id \in SessionIds : ResolvedBy(id, "session_start")
           /\ IsPrefix(logs[resume_id], logs'[resume_id])
           /\ session'.session_id # resume_id =>
                 logs'[resume_id] = logs[resume_id]

ContinueStep ==
    (ResolveStep /\ ret'.value[2] /\ ret'.value[1] \notin Live) =>
        IF Live # {}
        THEN \E id \in Live :
                /\ ResolvedBy(id, "session_continue")
                /\ \A o \in Live : mtime[o] <= mtime[id]
        ELSE \E id \in SessionIds : ResolvedBy(id, "session_start")

\* an expired log never has a later modification time than one that is not
ExpiredSortLast ==
    \A a, b \in SessionIds :
        (FileExists(a) /\ FileExists(b) /\ a \notin Live /\ b \in Live)
            => mtime[a] < mtime[b]

\* C19: continue-most-recent returns, whenever a non-expired log exists, a
\* non-expired log of greatest modification time, passing over the expired
\* ones, and fails over to creating a session only when no log exists or all
\* are expired.
C19_ContinueMostRecentLive == [][ContinueStep]_vars /\ []ExpiredSortLast

C19_Witness ==
    /\ ret.op = "get_or_create_session"
    /\ ret.value = <<Null, TRUE>>
    /\ FileExists("sess_a") /\ now - mtime["sess_a"] > TTL
    /\ session.session_id = "sess_b"
    /\ Len(logs["sess_b"]) = 2
    /\ logs["sess_b"][2].type = "session_continue"

Age(id) == now - mtime[id]

ExpiryState ==
    /\ \A id \in SessionIds :
         /\ ~FileExists(id) => is_expired(id)
         /\ (FileExists(id) /\ Age(id) > 24 * 60 * 60) => is_expired(id)
         /\ (FileExists(id) /\ Age(id) <= 24 * 60 * 60) => ~is_expired(id)

ExpiryStep ==
    /\ \A id \in SessionIds :
         (is_expired(id) /\ logs'[id] = logs[id]) => is_expired(id)'
    /\ (ret' # ret /\ ret'.op = "is_expired") =>
         (ret'.value[2] <=>
            (~FileExists(ret'.value[1]) \/ Age(ret'.value[1]) > 24 * 60 * 60))

\* C20: with integer times, a log older than the inactivity window
\* (now - mtime > window) is expired, one at the boundary or one second
\* younger is not, an expired log stays expired as time advances unless it is
\* appended to, and a session with no log file is expired.
C20_ExpiryMonotone == []ExpiryState /\ [][ExpiryStep]_vars

C20_Witness ==
    /\ FileExists("sess_a") /\ Age("sess_a") = TTL + 1 /\ is_expired("sess_a")
    /\ FileExists("sess_b") /\ Age("sess_b") = TTL /\ ~is_expired("sess_b")
    /\ ret = [op |-> "is_expired", value |-> <<"sess_a", TRUE>>]

\* ------------------------------------------------------------ log deletion
\* the step is a call of cleanup_expired
CleanupStep == ret'.op = "cleanup_expired" /\ (ret' # ret \/ logs' # logs)

DeletionStep ==
    /\ \A id \in SessionIds :
         (logs[id] # <<>> /\ logs'[id] = <<>>) => CleanupStep
    /\ CleanupStep =>
         /\ \A id \in SessionIds :
              /\ (FileExists(id) /\ Age(id) > TTL) => logs'[id] = <<>>
              /\ (FileExists(id) /\ Age(id) <= TTL) =>
                    (logs'[id] = logs[id] /\ mtime'[id] = mtime[id])
         /\ ret'.value =
              Cardinality({id \in SessionIds : FileExists(id) /\ Age(id) > TTL})

\* C21: no resolve, replay, listing, history read or tool_call append ever
\* removes a log file; cleanup_expired removes exactly the logs expired at the
\* time of the sweep, leaves the others as they are and returns the number
\* removed.
C21_DeletedOnlyByCleanup == [][DeletionStep]_vars

C21_Witness ==
    /\ ret = [op |-> "cleanup_expired", value |-> 1]
    /\ ~FileExists("sess_a")
    /\ FileExists("sess_b") /\ Age("sess_b") = TTL
    /\ logs["sess_b"][Len(logs["sess_b"])].type = "session_continue"

\* the lines of the log that process p wrote, in the order they stand
LinesOf(p) ==
    LET Mine(e) == e.tool = WriterTool(p) IN SelectSeq(logs[SharedLog], Mine)

RECURSIVE WrittenBy(_)
WrittenBy(ps) ==
    IF ps = {} THEN 0
    ELSE LET p == CHOOSE x \in ps : TRUE
         IN Len(writers[p].wrote) + WrittenBy(ps \ {p})

FreshIdStep ==
    \A id \in SessionIds :
        (/\ Len(logs'[id]) = Len(logs[id]) + 1
         /\ logs'[id][Len(logs'[id])].type = "session_start")
            => logs[id] = <<>>

\* C23: two sessions never share a log: every created session has an
\* identifier distinct from every identifier whose log already existed, so
\* create_session never appends its session_start entry to a log that
\* already holds another session's history.
C23_CreatedIdIsFresh == [][FreshIdStep]_vars

\* ---- properties of the resolver
LastCall(op) == ret.op = op
StartsWithSlash(s) == s # <<>> /\ s[1] = "/"

\* a string pathlib writes back as it is: absolute, no doubled or trailing
\* separator, no "." segment
IsNormal(s) ==
    /\ StartsWithSlash(s)
    /\ Len(s) > 1 => s[Len(s)] # "/"
    /\ \A i \in 1..(Len(s) - 1) : ~(s[i] = "/" /\ s[i + 1] = "/")
    /\ \A i \in 1..Len(s) :
          s[i] = "." => ~(/\ (i = 1 \/ s[i - 1] = "/")
                          /\ (i = Len(s) \/ s[i + 1] = "/"))

\* C24: absolute paths are resolution-invariant: for any absolute path p and
\* any focus value, including no focus, resolve_path(p) returns p unchanged
\* and never fails (unchanged as a path: no symbolic link is followed, no
\* ".." is collapsed, and a string in pathlib's normal form comes back
\* character for character).
C24_AbsoluteUnchanged ==
    (LastCall("resolve_path") /\ StartsWithSlash(ret.value.arg)) =>
        /\ ret.value.out.raised = Null
        /\ Len(ret.value.out.path) = 1
        /\ Path(str(ret.value.out.path[1])) = Path(ret.value.arg)
        /\ IsNormal(ret.value.arg) =>
              str(ret.value.out.path[1]) = ret.value.arg

\* the absolute path /a/l, a symbolic link, resolved while the focus is /a2
C24_Witness ==
    /\ LastCall("resolve_path")
    /\ ret.value.arg = <<"/", "a", "/", "l">>
    /\ ret.value.focus = <<Path(<<"/", "a", "2">>)>>
    /\ str(ret.value.out.path[1]) = <<"/", "a", "/", "l">>

\* the join of two component lists collapsed by name alone: "." dropped,
\* ".." cancels the name before it
RECURSIVE Collapse(_, _)
Collapse(done, rest) ==
    IF rest = <<>> THEN done
    ELSE IF Head(rest) = Dot THEN Collapse(done, Tail(rest))
    ELSE IF Head(rest) = DotDot THEN Collapse(Parent(done), Tail(rest))
    ELSE Collapse(Append(done, Head(rest)), Tail(rest))

Relative(s) == ~StartsWithSlash(s)
Joined(focus, s) == focus[1].parts \o Path(s).parts

\* the collapsed name list meets a symbolic link on its way
CrossesLink(parts) ==
    \E k \in 1..Len(parts) : Kind(Collapse(<<>>, SubSeq(parts, 1, k))) = "link"

NoFocusStep ==
    (LastCall("resolve_path") /\ Relative(ret.value.arg)
        /\ ret.value.focus = <<>>) =>
            ret.value.out =
                Raised("ValueError: Cannot resolve relative path without a project focus")

\* C25 as stated: a relative path with no focus fails (NoFocus) and with
\* focus F resolves to the normalized join of F and the path, "." and ".."
\* collapsed.
C25_NormalizedJoin ==
    /\ NoFocusStep
    /\ (LastCall("resolve_path") /\ Relative(ret.value.arg)
          /\ ret.value.focus # <<>>) =>
              /\ ret.value.out.raised = Null
              /\ ret.value.out.path =
                    << [root |-> <<"/">>,
                        parts |-> Collapse(<<>>, Joined(ret.value.focus,
                                                        ret.value.arg))] >>

\* C25: a relative path with no focus fails with the no-focus ValueError and
\* never falls back to the working directory; with focus F it resolves to the
\* real path of F joined with the path: absolute, free of "." and "..", every
\* symbolic link on the way replaced by its target, the file the join names
\* when it names one, and the join collapsed by name when no link is met.
C25_RelativeNeedsFocus ==
    /\ NoFocusStep
    /\ (LastCall("resolve_path") /\ Relative(ret.value.arg)
          /\ ret.value.focus # <<>>) =>
          LET joined == Joined(ret.value.focus, ret.value.arg)
              out == ret.value.out
          IN /\ out.raised = Null
             /\ Len(out.path) = 1
             /\ out.path[1].root = <<"/">>
             /\ \A i \in 1..Len(out.path[1].parts) :
                   /\ out.path[1].parts[i] \notin {Dot, DotDot}
                   /\ Kind(SubSeq(out.path[1].parts, 1, i)) # "link"
             /\ StatWalk(<<>>, joined) # <<"none">> =>
                   out.path[1].parts = StatWalk(<<>>, joined)
             /\ ~CrossesLink(joined) =>
                   out.path[1].parts = Collapse(<<>>, joined)

\* focus /a, path l/../x: the link /a/l -> /b is followed before ".."
C25_Witness ==
    /\ LastCall("resolve_path")
    /\ ret.value.focus = <<Path(<<"/", "a">>)>>
    /\ ret.value.arg = <<"l", "/", ".", ".", "/", "x">>
    /\ str(ret.value.out.path[1]) = <<"/", "x">>

\* root and names of a path, as one list; the root counts as one component
\* however many separators write it
Components(p) == << IF p.root = <<>> THEN <<>> ELSE <<"/">> >> \o p.parts

\* C26: is_within_focus(path) is true if and only if the component sequence
\* of the focus is a prefix of the component sequence of the resolved path;
\* with focus /root/proj a path under the sibling /root/proj2 is not within
\* focus, and with no focus the result is false.
C26_WithinIffComponentPrefix ==
    LastCall("is_within_focus") =>
        (ret.value.out.bool <=>
            /\ ret.value.focus # <<>>
            /\ LET out == resolve_path([_focus_path |-> ret.value.focus],
                                       ret.value.arg)
               IN /\ out.raised = Null
                  /\ IsPrefix(Components(ret.value.focus[1]),
                              Components(out.path[1])))

\* what makes a focus acceptable
ValidFocus(s) == StartsWithSlash(s) /\ exists(Path(s)) /\ is_dir(Path(s))
InvalidFocus ==
    {"ValueError: Project path must be absolute",
     "ValueError: Project path does not exist",
     "ValueError: Project path is not a directory"}

\* C27: set_focus(path) fails with a condition of kind InvalidFocus (a
\* ValueError) unless path is absolute, exists and is a directory; when it
\* fails the current focus is unchanged, when it succeeds the focus becomes
\* path, and in neither case is the session log written.
C27_SetFocusChecked ==
    LastCall("set_focus") =>
        /\ ret.value.out.raised # Null <=> ~ValidFocus(ret.value.arg)
        /\ ret.value.out.raised # Null =>
              /\ ret.value.out.raised \in InvalidFocus
              /\ resolver._focus_path = ret.value.focus
        /\ ret.value.out.raised = Null =>
              /\ resolver._focus_path = <<Path(ret.value.arg)>>
              /\ IsNormal(ret.value.arg) =>
                    str(resolver._focus_path[1]) = ret.value.arg
        /\ logs = NoLogs
        /\ \A id \in SessionIds : mtime[id] = 0

\* with focus /a, set_focus of the file /a/f fails and the focus stays /a
C27_Witness ==
    /\ LastCall("set_focus")
    /\ ret.value.arg = <<"/", "a", "/", "f">>
    /\ ret.value.out.raised = "ValueError: Project path is not a directory"
    /\ ret.value.focus = <<Path(<<"/", "a">>)>>
    /\ resolver._focus_path = <<Path(<<"/", "a">>)>>

\* ---- properties of the registry
InvalidDescriptor ==
    {"ValueError: missing 'name' in metadata",
     "ValueError: missing 'approval_level' in metadata",
     "ValueError: missing 'description' in metadata",
     "ValueError: missing 'params_model' in metadata"}
DuplicateTool == {"ValueError: Tool is already registered"}

\* a metadata field of the class is unset
IsMissing(cls) ==
    \E f \in {"name", "approval_level", "description", "params_model"} :
        cls[f] = Null

\* the class a name maps to: the first one in the registry with that name
MapsTo(reg, name) ==
    LET at == {i \in 1..Len(reg) : reg[i].name = name}
    IN IF at = {} THEN <<>>
       ELSE <<reg[CHOOSE i \in at : \A j \in at : i <= j]>>

RegisterStep ==
    ret'.op = "register_tool" =>
        LET cls == ret'.value.arg
            raised == ret'.value.raised
        IN /\ IsMissing(cls) => raised \in InvalidDescriptor
           /\ (~IsMissing(cls) /\ MapsTo(registry, cls.name) # <<>>) =>
                 raised \in DuplicateTool
           /\ (~IsMissing(cls) /\ MapsTo(registry, cls.name) = <<>>) =>
                 raised = Null
           /\ raised # Null => registry' = registry
           /\ raised = Null =>
                 /\ Len(registry') = Len(registry) + 1
                 /\ SubSeq(registry', 1, Len(registry)) = registry
                 /\ registry'[Len(registry')] = cls
           /\ \A name \in {c.name : c \in ToolClasses} :
                 MapsTo(registry, name) # <<>> =>
                    MapsTo(registry', name) = MapsTo(registry, name)

LookupStep ==
    /\ ret'.op = "get_tool" =>
          /\ ret'.value.found = MapsTo(registry, ret'.value.name)
          /\ registry' = registry
    /\ ret'.op = "list_tools" =>
          /\ Len(ret'.value.listed) = Len(registry)
          /\ \A i \in 1..Len(registry) :
                /\ ret'.value.listed[i].name = registry[i].name
                /\ ret'.value.listed[i].approval_level = registry[i].approval_level
                /\ ret'.value.listed[i].description = registry[i].description
                /\ \A j \in 1..Len(registry) :
                      registry[j].name = registry[i].name => j = i
          /\ registry' = registry

RegistrySteps == RegisterStep /\ LookupStep

\* C28: register fails with DuplicateTool when the name is already
\* registered and with InvalidDescriptor when name, tier, description or
\* schema is missing; a failed registration leaves the registry unchanged, so
\* each name maps to the first implementation registered under it, lookup of
\* an unregistered name returns absent, and list returns each registered
\* descriptor exactly once in registration order.
C28_RegistryFirstWins == [][RegistrySteps]_vars

\* bash_run then project_focus are registered and a second implementation of
\* project_focus has just been refused
C28_Witness ==
    /\ ret.op = "register_tool"
    /\ ret.value.raised = "ValueError: Tool is already registered"
    /\ ret.value.arg.name = "project_focus"
    /\ ret.value.arg.impl = "OtherTool"
    /\ Len(registry) = 2
    /\ registry[1].name = "bash_run"
    /\ registry[2].name = "project_focus"
    /\ registry[2].impl = "ProjectFocusTool"

\* the command of a bash_run invocation blocked past its timeout
BlockedPastTimeout ==
    /\ args.tool = "bash_run"
    /\ hist.executed = 1
    /\ local.result.timed_out \/ local.error.type = "TimeoutExpired"

\* C29: a shell operation that blocks past its caller-supplied timeout is
\* treated as a failed attempt: the invocation does not crash, a tool_call
\* entry carrying a structured error is appended to the session log, and the
\* envelope has success == false with a non-null error.
C29_TimeoutIsFailedAttempt ==
    (pc = "exited" /\ BlockedPastTimeout) =>
        /\ exit_code = 0
        /\ Len(stdout) = 1
        /\ ~stdout[1].success
        /\ stdout[1].error.type # Null
        /\ NewRecords # <<>>
        /\ NewRecords[Len(NewRecords)].type = "tool_call"
        /\ NewRecords[Len(NewRecords)].error.type # Null

\* C30: the focus-path snapshot stored in each tool_call entry is the
\* session's focus at the time the call was made, the focus in effect when
\* run started, for every tool including project_focus.
C30_SnapshotIsFocusAtCall ==
    (RunReturned /\ ToolCalls(NewRecords) # <<>>) =>
        \A i \in 1..Len(ToolCalls(NewRecords)) :
            ToolCalls(NewRecords)[i].context = <<local.context_info.project>>

\* C40: get_history(limit) returns, for every limit >= 0 and every log length
\* n, exactly the last min(limit, n) entries of the session in append order
\* (limit 0 returns no entries), entries appended earlier in the same process
\* included.
C40_HistoryIsLastEntries ==
    ret.op = "get_history" =>
        LET n == Len(session._entries)
            k == IF ret.limit < n THEN ret.limit ELSE n
        IN ret.value = SubSeq(session._entries, n - k + 1, n)

\* C39: for any focus F and any relative path r (paths with ".." included),
\* the path returned by resolve_path(r) lies within F by component-wise
\* prefix, so operations given relative paths never reach outside the
\* focused project.
C39_RelativeStaysInFocus ==
    (LastCall("resolve_path") /\ Relative(ret.value.arg)
        /\ ret.value.focus # <<>>) =>
            /\ ret.value.out.raised = Null
            /\ IsPrefix(Components(ret.value.focus[1]),
                        Components(ret.value.out.path[1]))

\* run was entered for project_focus and the envelope printed is an error
FailedProjectFocus ==
    /\ pc = "exited"
    /\ args.tool = "project_focus"
    /\ hist.phases # <<>>
    /\ Len(stdout) = 1
    /\ ~stdout[1].success

\* C33: a failed project_focus leaves the focus unchanged: whenever a
\* project_focus invocation returns an error envelope, no context_change
\* entry has been appended and a freshly loaded session reports the same
\* focus as before the invocation.
C33_FailedFocusKeepsFocus ==
    FailedProjectFocus =>
        /\ \A i \in 1..Len(NewRecords) : NewRecords[i].type # "context_change"
        /\ project_focus(NewSession(session.session_id)) =
              LastContextChange(SubSeq(logs[session.session_id], 1, hist.records0))

\* an envelope of the kinds run and execute_tool produce was printed for a
\* resolved session
EnvelopeAfterSession ==
    /\ pc = "exited"
    /\ session.session_id # Null
    /\ exit_code = 0
    /\ Len(stdout) = 1

\* C32: every envelope emitted after a session has been resolved carries the
\* current context snapshot: context.session_id equals the envelope's
\* session_id and context.project equals the session's focus after the call;
\* for success, ValidationError, ApprovalRequired, dry-run, execution-error
\* and ToolNotFound envelopes alike.
C32_EnvelopeCarriesContext ==
    EnvelopeAfterSession =>
        /\ stdout[1].context.session_id = stdout[1].session_id
        /\ stdout[1].context.project =
              project_focus(NewSession(session.session_id))

\* an append of the invocation failed
AppendFailed == \E i \in 1..Len(hist.phases) : hist.phases[i] = "AppendFailed"

\* C31: if appending to the session log fails at any point of an invocation
\* (lifecycle entry, logging a successful call, logging a failed call) the
\* fault is caught at the outermost boundary, main emits one generic error
\* envelope and exits with code 1, and the in-memory entry list never holds
\* an entry that is not in the log.
C31_StorageFaultIsTopLevel ==
    /\ (pc = "exited" /\ AppendFailed) =>
          /\ exit_code = 1
          /\ Len(stdout) = 1
          /\ ~stdout[1].success
          /\ stdout[1].tool = "agent"
          /\ stdout[1].error.type = "OSError"
    /\ (session.session_id # Null /\ session._loaded) =>
          IsPrefix(session._entries, logs[session.session_id])


\* ---------------------------------------------------- re-focusing a session
\* an invocation of project_focus on a resolved session, naming an absolute
\* existing directory, has ended
RefocusEnded ==
    /\ pc = "exited"
    /\ session.session_id # Null
    /\ args.tool = "project_focus"
    /\ SetFocusOk(args.params.path)

\* C34: a session can always be re-focused: an invocation of project_focus
\* with an absolute existing directory on a resumable session, whatever focus
\* the log replays (a deleted directory included), reaches the tool and does
\* not end in a top-level fault before the tool runs.
C34_SessionCanBeRefocused ==
    RefocusEnded => (exit_code = 0 /\ hist.phases # <<>>)


\* ------------------------------------- the focus of a Session object in use
\* the step appends a record of the given type to the log of the object's session
LogStep(entry_type) ==
    /\ session'.session_id # Null
    /\ Len(logs'[session'.session_id]) = Len(logs[session'.session_id]) + 1
    /\ logs'[session'.session_id][Len(logs'[session'.session_id])].type = entry_type

\* the record the step appended
Logged == logs'[session'.session_id][Len(logs'[session'.session_id])]

FocusAgreesStep ==
    /\ LogStep("context_change") =>
          /\ session'._project_focus = Logged.context[1]
          /\ LastContextChange(logs'[session'.session_id]) = Logged.context[1]
    /\ LogStep("tool_call") =>
          Logged.context = <<LastContextChange(logs[session'.session_id])>>

\* C35: after log_context_change(f) on a Session object, loaded or not, the
\* object's focus is f and equals the focus a freshly loaded Session reports;
\* the snapshot log_tool_call writes equals the fold of the log before it, also
\* when it is the first operation on a not yet loaded object.
C35_ObjectFocusIsFold == [][FocusAgreesStep]_vars


\* --------------------------------- focus under two concurrent invocations
\* the focus process p resolves relative paths against when its tool executes
ExecutesStale(p) ==
    /\ writers[p].pc = "ready"
    /\ writers'[p].pc = "executed"
    /\ writers[p].session._project_focus # LastContextChange(logs[SharedLog])

\* the step appends a tool_call whose snapshot is not the fold of the records
\* before it
SnapshotStale ==
    /\ Len(logs'[SharedLog]) = Len(logs[SharedLog]) + 1
    /\ logs'[SharedLog][Len(logs'[SharedLog])].type = "tool_call"
    /\ logs'[SharedLog][Len(logs'[SharedLog])].context #
          <<LastContextChange(logs[SharedLog])>>

FocusIsFoldStep == ~SnapshotStale /\ \A p \in Procs : ~ExecutesStale(p)

\* C36: under every interleaving of two processes on the same session, one of
\* which may run project_focus, each tool_call record's snapshot is the fold
\* (last wins) of the context_change records before it in the log, and the
\* focus a process resolves relative paths against is the fold of the log at
\* the moment its tool executes.
C36_ConcurrentFocusIsFold == [][FocusIsFoldStep]_vars


\* ------------------------------------------ logs under a concurrent sweep
\* the context_change records process p has loaded or appended
ContextChangesOf(p) ==
    {writers[p].session._entries[i] : i \in
        {j \in 1..Len(writers[p].session._entries) :
            writers[p].session._entries[j].type = "context_change"}}

InLog(id, entry) == \E i \in 1..Len(logs[id]) : logs[id][i] = entry

\* C37: in every interleaving of cleanup_expired in one process with resume,
\* continue and tool invocations in another, as time crosses the expiry
\* boundary, every existing log begins with session_start and holds every
\* context_change appended to it: no resume or continue appends to a log the
\* sweep has just deleted, recreating it without its history.
C37_SweptLogsKeepHistory ==
    \A id \in SessionIds :
        FileExists(id) =>
            /\ logs[id][1].type = "session_start"
            /\ \A p \in Procs :
                  writers[p].session.session_id = id =>
                      \A e \in ContextChangesOf(p) : InLog(id, e)


\* ------------------------------------------------ lifecycle records
LifecycleKinds == {"session_start", "session_resume", "session_continue"}

EntryKinds == LifecycleKinds \cup {"context_change", "tool_call"}

\* the kind of resolution the flags of the command line ask for, given the
\* logs that can be resumed
ExpectedKind(resume_id, continue_last) ==
    IF resume_id \in Live THEN "session_resume"
    ELSE IF continue_last /\ Live # {} THEN "session_continue"
    ELSE "session_start"

\* whatever the flags, the resolution appends one record of the matching kind
\* to the log of the session it returns
ResolutionMatches ==
    \A resume_id \in SessionIds \cup {Null}, continue_last \in BOOLEAN,
       order \in SortedSessionFiles, new_id \in generate_session_id :
        LET w == get_or_create_session(resume_id, continue_last, order, new_id) IN
        w.file = Append(logs[w.session.session_id],
                        LifecycleEntry(ExpectedKind(resume_id, continue_last)))

\* the records of the invocation come after its lifecycle record
LifecycleFirst ==
    hist.phases # <<>> =>
        /\ hist.records0 >= 1
        /\ logs[session.session_id][hist.records0].type \in LifecycleKinds
        /\ \A i \in 1..Len(NewRecords) :
              NewRecords[i].type \in {"context_change", "tool_call"}

EntryKindsOnly ==
    \A id \in SessionIds :
        \A i \in 1..Len(logs[id]) : logs[id][i].type \in EntryKinds

\* a step that writes a log is the resolution, which appends one lifecycle
\* record to the log of the session it returns, or comes after it
LifecycleStep ==
    /\ (pc = "session" /\ pc' = "execute_tool") =>
          \E kind \in LifecycleKinds : ResolvedBy(session'.session_id, kind)
    /\ (logs' # logs /\ pc # "session") =>
          /\ hist'.phases # <<>>
          /\ session'.session_id = session.session_id
          /\ IsPrefix(logs[session.session_id], logs'[session.session_id])

\* C38: each successful session resolution appends exactly one lifecycle record
\* of the matching kind (session_start for a created session, session_resume
\* for a resume by id, session_continue for continue-most-recent), that record
\* precedes every tool_call and context_change record of the same invocation,
\* and every record of every log has one of the five types.
C38_LifecycleRecordFirst ==
    [][LifecycleStep]_vars /\ [](ResolutionMatches /\ LifecycleFirst /\ EntryKindsOnly)

C38_Witness ==
    /\ pc = "exited"
    /\ args.tool = "project_focus"
    /\ session.session_id # Null
    /\ Len(logs[session.session_id]) = 5
    /\ logs[session.session_id][3].type = "session_continue"
    /\ logs[session.session_id][4].type = "context_change"
    /\ logs[session.session_id][5].type = "tool_call"

====
